---- MODULE Spec2Model ----
(***************************************************************************)
(* Verification model of the dotai Sync Orchestration Engine:              *)
(*   - LockManagerImpl            (packages/core/src/engine.ts)            *)
(*   - AtomicFileWriterImpl       (packages/core/src/engine.ts)            *)
(*   - ConfigWriter.atomicWrite   (packages/core/src/config/writer.ts)     *)
(*   - GitProviderImpl            (unnamed/part_012)                       *)
(*   - AbstractToolAdapter        (packages/core/src/adapters/codex.ts)    *)
(*   - SyncOrchestrator           (packages/core/src/sync/orchestrator.ts) *)
(*   - SyncStateStore             (packages/core/src/sync/state-store.ts)  *)
(*   - ConfigWriter, ConfigResolver (packages/core/src/config/writer.ts)   *)
(*   - EventBusImpl               (packages/core/src/utils/platform-paths.ts) *)
(*   - DotAIEngine.refreshEngine  (packages/core/src/engine.ts)            *)
(*   - the tool adapters' resolveTargetPath (packages/core/src/adapters)   *)
(*   - the extension's settings synchronisation (unnamed/part_009)         *)
(*   - StatusBarManager           (unnamed/part_005)                       *)
(*                                                                         *)
(* Sixteen specifications share the variables below:                       *)
(*   LockSpec   concurrent sync() invocations competing for the sync lock  *)
(*   WriterSpec concurrent / crashing temp-file + rename writers           *)
(*   PullSpec   one GitProviderImpl.pull() call with its retries           *)
(*   Spec       one orchestrator running one operation step by step        *)
(*   DeploySpec one AbstractToolAdapter.deploy() call                      *)
(*   StoreSpec  processes recording a sync in the same state file          *)
(*   StaleSpec  acquire() against a lock whose holder runs on or crashes   *)
(*   QuerySpec  one diff(), preview() or validate() call                   *)
(*   ConfigSpec updateSettings() and resolve() calls on the settings file  *)
(*   BusSpec    on(), dispose() and emit() calls on one event bus          *)
(*   ReloadSpec a configuration reload while a sync() call is in flight    *)
(*   MirrorSpec pull() calls against a remote and a mirror that move       *)
(*   StaleFairSpec StaleSpec under fair scheduling of the retry loop       *)
(*   PathSpec   getAllPathMappings() over the built-in adapters            *)
(*   UpdateSpec two updateSettings() calls interleaved on one file         *)
(*   GuardSpec  the updatingFromYaml guard and the change notifications    *)
(***************************************************************************)
EXTENDS Integers, Sequences, FiniteSets, TLC

VARIABLES
  \* ---- cross-process lock (proper-lockfile on ~/.dotai/.sync.lock) ----
  lockOwner,     \* token of the acquisition holding the lock file, Free if none
  releaseFn,     \* LockManagerImpl.releaseFn of every LockManager instance
  \* ---- concurrent sync() invocations (LockSpec) ----
  callPc,        \* position of every invocation inside sync()
  callInst,      \* the LockManager instance every invocation uses
  callAcquired,  \* the invocation's lockfile.lock() succeeded
  callPath,      \* how the invocation left the guarded block
  \* ---- temp-file + rename writers (WriterSpec) ----
  fsDir,         \* directory entries: path -> inode, NoInode if absent
  fsData,        \* inode -> bytes stored in it
  wPc,           \* position of every write()/copy() call
  wFd,           \* the inode the call's open file descriptor refers to
  wOff,          \* bytes the call has written through its descriptor
  \* ---- GitProviderImpl ----
  git,           \* provider instance: [initialized, localCommit]
  pullInput,     \* PullSpec: what the clone/fetch operation does on each run
  pullOut,       \* PullSpec: everything the pull() call did and returned
  \* ---- configuration and environment of the orchestrator (Spec) ----
  repoUrl,       \* config.settings.repository.url
  overrideMode,  \* config.settings.sync.overrideMode
  configTools,   \* config.effectiveTools
  installed,     \* tools whose detect() reports installed
  mirror,        \* source files present in the local mirror
  dest,          \* destination path -> content
  syncState,     \* SyncStateStore file: per-tool and global timestamps
  \* ---- one operation of the orchestrator (Spec) ----
  pc,            \* position inside the running operation
  op,            \* the operation called: sync / preview / diff / validate
  opts,          \* SyncOptions of the call
  effectiveTools,\* local of sync(): resolved tool list
  ctxMode,       \* local of sync(): context.overrideMode
  toolIdx,       \* local of sync(): index of the tool being processed
  events,        \* events emitted on the event bus, in order
  results,       \* local of sync(): ToolSyncResult[]
  errors,        \* local of sync(): SyncError[]
  totalFiles,    \* local of sync()
  writes,        \* destination paths written by writer.copy, in order
  pullResult,    \* what gitProvider.pull() returned / threw in this call
  report,        \* the SyncReport returned by sync()
  opResult,      \* what preview / diff / validate returned
  \* ---- one adapter.deploy() call (DeploySpec) ----
  deployIn,      \* the mappings passed to deploy()
  deployFailing, \* destinations whose writer.copy rejects
  deployOut,     \* the DeployResult returned
  \* ---- processes running SyncStateStore.recordGlobalSync (StoreSpec) ----
  storeFile,     \* content of ~/.dotai/.sync-state.json
  storeLock,     \* process holding the lock on the state file, 0 if none
  stPc,          \* position of every process inside recordGlobalSync / save
  stState,       \* local `state` of every process
  stSuccess,     \* the tools every process reports as successfully synced
  \* ---- a holder of the sync lock and a later acquire() (StaleSpec) ----
  holder,        \* the process that took the lock first: live / crashed / released
  lockAge,       \* ms since the lock's mtime was last updated
  acqPc,         \* position of the other process inside acquire()
  acqElapsed,    \* ms since that acquire() call read startTime
  acqTimeout,    \* the timeout argument of that acquire() call
  \* ---- settings.yaml, the project profile and their readers (ConfigSpec) ----
  settingsFile,  \* ~/.dotai/settings.yaml: missing, unparseable, scalar or a document
  profileFile,   \* <project>/.dotai/profile.yaml, likewise
  lastUpdate,    \* the last updateSettings call: its partial and the file before it
  resolved,      \* the ResolvedConfig returned by the last resolve()
  \* ---- EventBusImpl and its subscribers (BusSpec) ----
  emitter,       \* EventEmitter: event type -> listeners, in registration order
  wildcardHandlers, \* the Set of wildcard handlers, in insertion order
  subscriptions, \* every on() call made: its types, handler, and whether disposed
  delivered,     \* the last emit(): its event type and the handlers it invoked
  \* ---- a running engine refreshed while sync() is in flight (ReloadSpec) ----
  orchConfig,    \* SyncOrchestrator.config: repository url, override mode, repoLocalPath
  orchGitProvider, \* SyncOrchestrator.gitProvider: the cachePath it pulls into
  registryRepoPath, \* repoLocalPath of the adapters currently in the registry
  mirrorState,   \* cache path -> absent / stale / fresh (pulled by the running call)
  rlPc,          \* position of the sync() call
  rlCall,        \* locals and observations of the sync() call
  \* ---- the local mirror as a git working copy (MirrorSpec) ----
  cache,         \* the clone under cachePath: HEAD, branches, remote-tracking refs
  remote,        \* the upstream repository: branch -> version of its tip
  initialized,   \* GitProviderImpl.initialized of the running provider
  mpOut,         \* the last pull(): its request and what it returned or threw
  \* ---- target paths of the built-in adapters (PathSpec) ----
  pmMirror,      \* the source files of the mirror: tool, scope, path below the scope
  pmContext,     \* the DeployContext: userHome and projectPath
  pmMappings,    \* the mappings of all adapters and requested scopes, once computed
  \* ---- concurrent ConfigWriter.updateSettings calls (UpdateSpec) ----
  tmpFile,       \* settings.yaml.tmp: missing or the document written to it
  usPc,          \* position of every updateSettings call
  usPartial,     \* the partial settings every call was given
  usMerged,      \* local `merged` of every call
  \* ---- YAML <-> VS Code settings sync of the extension (GuardSpec) ----
  updatingFromYaml, \* the re-entrancy guard
  ysLeft,        \* cfg.update calls the running syncYamlToVSCode has still to make
  notifications, \* configuration-change notifications not yet delivered, by cause
  guardTimers,   \* pending setTimeout callbacks that clear the guard
  loopWrites,    \* write-backs to settings.yaml triggered by a programmatic update
  yamlEvents     \* settings.yaml change events seen so far

lockVars == <<lockOwner, releaseFn>>
callVars == <<callPc, callInst, callAcquired, callPath>>
writerVars == <<fsDir, fsData, wPc, wFd, wOff>>
gitVars == <<git, pullInput, pullOut>>
envVars == <<repoUrl, overrideMode, configTools, installed, mirror, dest, syncState>>
opVars == <<pc, op, opts, effectiveTools, ctxMode, toolIdx, events, results,
            errors, totalFiles, writes, pullResult, report, opResult>>
deployVars == <<deployIn, deployFailing, deployOut>>
storeVars == <<storeFile, storeLock, stPc, stState, stSuccess>>
staleVars == <<holder, lockAge, acqPc, acqElapsed, acqTimeout>>
configVars == <<settingsFile, profileFile, lastUpdate, resolved>>
busVars == <<emitter, wildcardHandlers, subscriptions, delivered>>
reloadVars == <<orchConfig, orchGitProvider, registryRepoPath, mirrorState, rlPc, rlCall>>
mirrorVars == <<cache, remote, initialized, mpOut>>
pathVars == <<pmMirror, pmContext, pmMappings>>
updVars == <<tmpFile, usPc, usPartial, usMerged>>
guardVars == <<updatingFromYaml, ysLeft, notifications, guardTimers, loopWrites,
               yamlEvents>>
extVars == <<reloadVars, mirrorVars, pathVars, updVars, guardVars>>
vars == <<lockOwner, releaseFn, callPc, callInst, callAcquired, callPath,
          fsDir, fsData, wPc, wFd, wOff, git, pullInput, pullOut,
          repoUrl, overrideMode, configTools, installed, mirror, dest, syncState,
          pc, op, opts, effectiveTools, ctxMode, toolIdx, events, results,
          errors, totalFiles, writes, pullResult, report, opResult,
          deployIn, deployFailing, deployOut,
          storeFile, storeLock, stPc, stState, stSuccess,
          holder, lockAge, acqPc, acqElapsed, acqTimeout,
          settingsFile, profileFile, lastUpdate, resolved,
          emitter, wildcardHandlers, subscriptions, delivered,
          orchConfig, orchGitProvider, registryRepoPath, mirrorState, rlPc, rlCall,
          cache, remote, initialized, mpOut,
          pmMirror, pmContext, pmMappings,
          tmpFile, usPc, usPartial, usMerged,
          updatingFromYaml, ysLeft, notifications, guardTimers, loopWrites, yamlEvents>>

(***************************************************************************)
(* Bounds                                                                  *)
(***************************************************************************)
NumCalls == 3
NumInsts == 2
NumWriters == 2
ContentLen == 2
NumProcs == 2

Calls == 1..NumCalls
Insts == 1..NumInsts
Writers == 1..NumWriters
Procs == 1..NumProcs

(***************************************************************************)
(* LockManagerImpl                                                         *)
(***************************************************************************)
Free == 0          \* no lock directory on disk
NoFn == 0          \* releaseFn = null
OtherProc == -1    \* an acquisition made by a process outside the model

\* lockfile.lock(lockFile, {stale, retries: 0}) resolves iff nobody holds the
\* lock (a live holder keeps refreshing the lock's mtime, so it never turns
\* stale while its process runs).
lockSucceeds(owner) == owner = Free

\* LockManagerImpl.release(): if (this.releaseFn) { await this.releaseFn();
\* this.releaseFn = null }.  The stored function releases the acquisition it
\* was returned for, whoever calls it.
release_skip(fn, owner) == [owner |-> owner, fn |-> NoFn]
release(fn, owner) ==
  IF fn # NoFn
    THEN [owner |-> IF owner = fn THEN Free ELSE owner, fn |-> NoFn]
    ELSE [owner |-> owner, fn |-> fn]

(***************************************************************************)
(* GitProviderImpl: pull() with executeWithRetry                           *)
(***************************************************************************)
maxRetries == 3
baseDelay == 1000
backoffMultiplier == 2

\* Signatures the provider looks for in an error message (message.includes)
NetworkSignatures ==
  {"Could not resolve host", "Connection refused", "Network is unreachable",
   "Operation timed out", "fatal: unable to access"}
AuthSignatures ==
  {"Authentication failed", "Permission denied", "403 Forbidden",
   "401 Unauthorized", "could not read Username", "could not read Password",
   "invalid username or password", "repository not found"}

\* An error message is modelled by the set of signature fragments it contains.
Messages ==
  { {"Could not resolve host"},                       \* network signature only
    {"Authentication failed"},                        \* auth signature only
    {"fatal: unable to access", "403 Forbidden"},     \* both signatures
    {"fatal: could not", "Authorization failed"},     \* the two-part auth signature
    {"fatal: could not"} }                            \* neither: unknown error
NoError == {"<resolved>"}     \* the operation resolved

isNetworkError(message) == message \cap NetworkSignatures # {}

isAuthError(message) ==
  \/ message \cap AuthSignatures # {}
  \/ {"fatal: could not", "Authorization failed"} \subseteq message

RECURSIVE Pow(_, _)
Pow(b, e) == IF e = 0 THEN 1 ELSE b * Pow(b, e - 1)

\* const delay = baseDelay * Math.pow(backoffMultiplier, attempt)
backoffDelay_linear(attempt) == baseDelay * backoffMultiplier * attempt
backoffDelay(attempt) == baseDelay * Pow(backoffMultiplier, attempt)

\* executeWithRetry: outs[k] is what run number k of operation() does (NoError
\* or the message it rejects with).  Returns the error thrown (NoError if the
\* call returns), the errors of all runs made and the delays waited.
RECURSIVE executeWithRetry(_, _, _, _)
executeWithRetry(outs, attempt, errs, waits) ==
  LET error == outs[attempt + 1] IN
  IF error = NoError
    THEN [thrown |-> NoError, runs |-> Append(errs, error), waits |-> waits]
  ELSE IF ~isNetworkError(error) \/ attempt = maxRetries
    THEN [thrown |-> error, runs |-> Append(errs, error), waits |-> waits]
  ELSE executeWithRetry(outs, attempt + 1, Append(errs, error),
                        Append(waits, backoffDelay(attempt)))

NullHash == "null"
RemoteTip == "c2"
Commits == {"c1", "c2"}

Event(type, tool) == [type |-> type, tool |-> tool]

\* the catch block of pull(): what an error thrown by the try block becomes
pullCatch(error) ==
  IF isAuthError(error) THEN "authError"
  ELSE IF isNetworkError(error) THEN "offline"
  ELSE "rethrow"

\* pull(): g is the provider instance, outs the behaviour of the operation.
\* thrown is "none" when pull() returns a PullResult.
pull(g, outs) ==
  LET previousHash == IF g.initialized THEN g.localCommit ELSE NullHash
      r == executeWithRetry(outs, 0, <<>>, <<>>)
      start == <<Event("git:pull:start", "")>>
  IN IF r.thrown = NoError
       THEN [thrown |-> "none",
             events |-> start \o <<Event("git:pull:complete", "")>>,
             result |-> [updated |-> previousHash # RemoteTip, fromCache |-> FALSE,
                         commitHash |-> RemoteTip, previousHash |-> previousHash],
             git |-> [initialized |-> TRUE, localCommit |-> RemoteTip],
             error |-> NoError, runs |-> r.runs, waits |-> r.waits]
     ELSE IF pullCatch(r.thrown) = "offline"
       THEN [thrown |-> "none",
             events |-> start \o <<Event("git:offline", "")>>,
             result |-> [updated |-> FALSE, fromCache |-> TRUE,
                         commitHash |-> g.localCommit, previousHash |-> NullHash],
             git |-> g,
             error |-> r.thrown, runs |-> r.runs, waits |-> r.waits]
     ELSE [thrown |-> pullCatch(r.thrown),
           events |-> start,
           result |-> [updated |-> FALSE, fromCache |-> FALSE,
                       commitHash |-> NullHash, previousHash |-> previousHash],
           git |-> g,
           error |-> r.thrown, runs |-> r.runs, waits |-> r.waits]

NoPull == [thrown |-> "notCalled"]

GitIdle ==
  /\ git = [initialized |-> FALSE, localCommit |-> "c1"]
  /\ pullInput = <<>>
  /\ pullOut = NoPull

(***************************************************************************)
(* Tool adapters (AbstractToolAdapter) and the source mirror               *)
(***************************************************************************)
\* Two registered adapters: "ta" accepts only .md files and supports both
\* scopes, "tb" accepts every extension and supports the user scope only.
\* "tx" is a tool id for which no adapter is registered.
RegisteredTools == <<"ta", "tb">>
ToolIds == {"ta", "tb", "tx"}

supportedScopes(t) == IF t = "ta" THEN <<"user", "project">> ELSE <<"user">>
allowedExtensions(t) == IF t = "ta" THEN {".md"} ELSE {}

\* Source files the mirror may contain, in the order the glob enumerates them
FileOrder == <<"ta/user/n.txt", "ta/user/r.md", "ta/project/p.md", "tb/user/s.json">>
SrcFiles == {FileOrder[i] : i \in 1..Len(FileOrder)}

FileInfo(f) ==
  CASE f = "ta/user/n.txt"  -> [tool |-> "ta", scope |-> "user", ext |-> ".txt",
                                target |-> "~/.ta/n.txt"]
    [] f = "ta/user/r.md"   -> [tool |-> "ta", scope |-> "user", ext |-> ".md",
                                target |-> "~/.ta/r.md"]
    [] f = "ta/project/p.md" -> [tool |-> "ta", scope |-> "project", ext |-> ".md",
                                 target |-> "./.ta/p.md"]
    [] f = "tb/user/s.json" -> [tool |-> "tb", scope |-> "user", ext |-> ".json",
                                target |-> "~/.tb/s.json"]

TargetPaths == {FileInfo(f).target : f \in SrcFiles}

Absent == "<absent>"      \* the destination path does not exist
Local == "<local edit>"   \* content that did not come from the mirror
Unreadable == "<unreadable>"  \* the path exists but readFile on it rejects
\* the content of a source file is identified with the source path itself
SourceContent(f) == f

Range(seq) == {seq[i] : i \in 1..Len(seq)}

\* determineAction(targetPath, overrideMode)
determineAction_ignoreMode(content, mode) ==
  IF content = Absent THEN "create" ELSE "overwrite"
determineAction(content, mode) ==
  IF content = Absent THEN "create"
  ELSE IF mode = "skip" THEN "skip"
  ELSE "overwrite"

\* getPathMappings(scope, context) of adapter t over mirror mir and
\* destinations dst
getPathMappings(t, scope, mode, mir, dst) ==
  LET files == SelectSeq(FileOrder,
                 LAMBDA f : f \in mir /\ FileInfo(f).tool = t /\ FileInfo(f).scope = scope)
  IN [i \in 1..Len(files) |->
        [sourcePath |-> files[i],
         targetPath |-> FileInfo(files[i]).target,
         scope |-> scope,
         action |-> determineAction(dst[FileInfo(files[i]).target], mode)]]

\* validate(files): the files whose extension is outside the allow-list
validate(t, files) ==
  LET bad == IF allowedExtensions(t) = {}
               THEN <<>>
               ELSE SelectSeq(files, LAMBDA f : FileInfo(f).ext \notin allowedExtensions(t))
  IN [valid |-> Len(bad) = 0, errors |-> bad]

\* deploy(mappings, writer): failing is the set of destinations whose
\* writer.copy rejects
deploy_stopOnError(mappings, dst, failing) ==
  LET bad == {i \in 1..Len(mappings) :
                mappings[i].action # "skip" /\ mappings[i].targetPath \in failing}
      n == IF bad = {} THEN Len(mappings)
           ELSE CHOOSE i \in bad : \A j \in bad : i <= j
      done == SubSeq(mappings, 1, n)
      copied == SelectSeq(done, LAMBDA m : m.action # "skip" /\ m.targetPath \notin failing)
  IN [filesWritten |-> Len(copied),
      filesSkipped |-> Len(SelectSeq(done, LAMBDA m : m.action = "skip")),
      errors |-> IF bad = {} THEN <<>> ELSE <<mappings[n].targetPath>>,
      dest |-> [p \in DOMAIN dst |->
                  IF \E i \in 1..Len(copied) : copied[i].targetPath = p
                    THEN SourceContent(
                           copied[CHOOSE i \in 1..Len(copied) : copied[i].targetPath = p].sourcePath)
                    ELSE dst[p]],
      written |-> [i \in 1..Len(copied) |-> copied[i].targetPath]]
RECURSIVE deploy(_, _, _)
deploy(mappings, dst, failing) ==
  IF mappings = <<>>
    THEN [filesWritten |-> 0, filesSkipped |-> 0, errors |-> <<>>,
          dest |-> dst, written |-> <<>>]
  ELSE
    LET m == Head(mappings) IN
    IF m.action = "skip"
      THEN LET r == deploy(Tail(mappings), dst, failing)
           IN [r EXCEPT !.filesSkipped = @ + 1]
    ELSE IF m.targetPath \in failing
      THEN LET r == deploy(Tail(mappings), dst, failing)
           IN [r EXCEPT !.errors = <<m.targetPath>> \o @]
    ELSE LET r == deploy(Tail(mappings),
                         [dst EXCEPT ![m.targetPath] = SourceContent(m.sourcePath)],
                         failing)
         IN [r EXCEPT !.filesWritten = @ + 1, !.written = <<m.targetPath>> \o @]

NoDeploy == [filesWritten |-> -1]
DeployIdle ==
  /\ deployIn = <<>>
  /\ deployFailing = {}
  /\ deployOut = NoDeploy

\* preview(mappings)
preview(mappings) ==
  [i \in 1..Len(mappings) |->
     [sourcePath |-> mappings[i].sourcePath, targetPath |-> mappings[i].targetPath,
      action |-> mappings[i].action]]

(***************************************************************************)
(* SyncOrchestrator: pure parts                                            *)
(***************************************************************************)
\* String.prototype.trim on a string given as a sequence of characters
RECURSIVE TrimStart(_)
TrimStart(str) ==
  IF str # <<>> /\ Head(str) = " " THEN TrimStart(Tail(str)) ELSE str
RECURSIVE TrimEnd(_)
TrimEnd(str) ==
  IF str # <<>> /\ str[Len(str)] = " " THEN TrimEnd(SubSeq(str, 1, Len(str) - 1)) ELSE str
Trim(str) == TrimEnd(TrimStart(str))

\* assertRepositoryConfigured(): TRUE iff it does not throw
assertRepositoryConfigured_noTrim(url) == url # <<>>
assertRepositoryConfigured(url) == Trim(url) # <<>>

\* resolveEffectiveTools(options)
resolveEffectiveTools(o, cfgTools) ==
  IF Len(o.tools) > 0 THEN o.tools
  ELSE IF Len(cfgTools) > 0 THEN cfgTools
  ELSE RegisteredTools

\* resolveScopes(options)
resolveScopes(o) ==
  IF o.scope = "all" THEN <<"user", "project">> ELSE <<o.scope>>

SyncError(tool, file, error, recoverable) ==
  [tool |-> tool, file |-> file, error |-> error, recoverable |-> recoverable]

ToolResult(tool, status, deployed, skipped) ==
  [tool |-> tool, status |-> status, filesDeployed |-> deployed, filesSkipped |-> skipped]

\* One iteration of `for (const scope of scopes)` for tool t.  acc carries the
\* locals of the tool iteration and the effects made so far; thrOp names the
\* adapter operation that throws in this iteration ("none" if none does).
syncScope(acc, t, scope, thrOp, failing, dryRun, mode, mir) ==
  IF scope \notin Range(supportedScopes(t)) THEN acc
  ELSE IF thrOp = "getPathMappings" THEN [acc EXCEPT !.threw = TRUE]
  ELSE
    LET mappings == getPathMappings(t, scope, mode, mir, acc.dest) IN
    IF Len(mappings) = 0 THEN acc
    ELSE IF thrOp = "validate" THEN [acc EXCEPT !.threw = TRUE]
    ELSE
      LET v == validate(t, [i \in 1..Len(mappings) |-> mappings[i].sourcePath])
          acc1 == IF v.valid THEN acc
                  ELSE [acc EXCEPT
                          !.events = @ \o [i \in 1..Len(v.errors) |->
                                             Event("tool:validate:error", t)],
                          !.errors = @ \o [i \in 1..Len(v.errors) |->
                                             SyncError(t, v.errors[i],
                                                       "File extension not allowed", TRUE)]]
          effectiveMappings ==
            IF v.valid THEN mappings
            ELSE SelectSeq(mappings, LAMBDA m : m.sourcePath \notin Range(v.errors))
      IN
      IF ~v.valid /\ Len(effectiveMappings) = 0
        THEN [acc1 EXCEPT !.hasError = TRUE]
      ELSE IF thrOp = "deploy" THEN [acc1 EXCEPT !.threw = TRUE]
      ELSE IF dryRun
        THEN [acc1 EXCEPT !.total = @ + Len(preview(effectiveMappings)),
                          !.deployed = @ + Len(preview(effectiveMappings))]
      ELSE
        LET d == deploy(effectiveMappings, acc1.dest, failing) IN
        [acc1 EXCEPT
           !.total = @ + d.filesWritten,
           !.deployed = @ + d.filesWritten,
           !.skipped = @ + d.filesSkipped,
           !.events = IF d.filesSkipped > 0
                        THEN @ \o <<Event("conflict:detected", t)>> ELSE @,
           !.errors = @ \o [i \in 1..Len(d.errors) |->
                              SyncError(t, d.errors[i], "copy failed", TRUE)],
           !.hasError = @ \/ Len(d.errors) > 0,
           !.dest = d.dest,
           !.writes = @ \o d.written]

\* the scope loop of one tool; the adapter operation thrOp throws in
\* iteration thrAt (0: nothing throws)
syncScopes_ignoreDryRun(acc, t, scopes, k, thrAt, thrOp, failing, dryRun, mode, mir) ==
  LET a1 == IF Len(scopes) >= 1
              THEN syncScope(acc, t, scopes[1], IF thrAt = 1 THEN thrOp ELSE "none",
                             failing, FALSE, mode, mir)
              ELSE acc
  IN IF Len(scopes) >= 2 /\ ~a1.threw
       THEN syncScope(a1, t, scopes[2], IF thrAt = 2 THEN thrOp ELSE "none",
                      failing, FALSE, mode, mir)
       ELSE a1
RECURSIVE syncScopes(_, _, _, _, _, _, _, _, _, _)
syncScopes(acc, t, scopes, k, thrAt, thrOp, failing, dryRun, mode, mir) ==
  IF k > Len(scopes) \/ acc.threw THEN acc
  ELSE syncScopes(
         syncScope(acc, t, scopes[k], IF thrAt = k THEN thrOp ELSE "none",
                   failing, dryRun, mode, mir),
         t, scopes, k + 1, thrAt, thrOp, failing, dryRun, mode, mir)

\* toolStatus
toolStatus(hasError, deployed) ==
  IF hasError THEN (IF deployed > 0 THEN "partial" ELSE "failed") ELSE "success"

\* report.success
reportSuccess_statusOnly(errs, res) ==
  /\ ~\E i \in 1..Len(errs) : ~errs[i].recoverable
  /\ ~\E i \in 1..Len(res) : res[i].status \in {"failed", "partial"}
reportSuccess(errs, res) ==
  /\ ~\E i \in 1..Len(errs) : ~errs[i].recoverable
  /\ ~\E i \in 1..Len(res) : res[i].status \in {"failed", "partial"}
  /\ Len(errs) = 0

\* SyncStateStore.recordGlobalSync(toolResults, timestamp)
recordGlobalSync(state, res, timestamp) ==
  [lastGlobalSync |-> timestamp,
   tools |-> [t \in ToolIds |->
                IF \E i \in 1..Len(res) : res[i].tool = t /\ res[i].status = "success"
                  THEN timestamp ELSE state.tools[t]]]

NeverSynced == [lastGlobalSync |-> 0, tools |-> [t \in ToolIds |-> 0]]

\* SyncStateStore.save(state), the part under the lock: re-read the file and
\* merge; a key missing from an object and a null are written 0
saveMerge(latestState, state) ==
  [tools |-> [t \in ToolIds |->
                IF state.tools[t] # 0 THEN state.tools[t] ELSE latestState.tools[t]],
   lastGlobalSync |-> IF state.lastGlobalSync # 0 THEN state.lastGlobalSync
                      ELSE latestState.lastGlobalSync]

StoreIdle ==
  /\ storeFile = NeverSynced
  /\ storeLock = 0
  /\ stPc = [p \in Procs |-> "start"]
  /\ stState = [p \in Procs |-> NeverSynced]
  /\ stSuccess = [p \in Procs |-> {}]

staleTimeout == 60000    \* createDotAIEngine: staleTimeout: 60_000
acquireTimeout == 30000  \* acquire(timeout = 30_000)
retryDelay == 500        \* const retryDelay = 500

StaleIdle ==
  /\ holder = "released"
  /\ lockAge = 0
  /\ acqPc = "idle"
  /\ acqElapsed = 0
  /\ acqTimeout = acquireTimeout

(***************************************************************************)
(* ConfigWriter and ConfigResolver (packages/core/src/config/writer.ts)    *)
(***************************************************************************)
\* A YAML value is a string; "<not set>" is an absent key, "<undefined>" a
\* key a caller passes with the value undefined.  A tool list is written as
\* the string naming it and decoded by toolsArray.
NotSet == "<not set>"
Undef == "<undefined>"

Sections == {"repository", "sync", "log"}
TopKeys == Sections \cup {"extra"}   \* "extra": a key the program does not know
FieldsOf(k) ==
  CASE k = "repository" -> {"url", "branch", "auth"}
    [] k = "sync" -> {"autoSync", "intervalMinutes", "tools", "overrideMode"}
    [] k = "log" -> {"level"}
    [] OTHER -> {"note"}

\* the value under a top-level key: absent, a scalar, or a mapping
NoFields(k) == [x \in FieldsOf(k) |-> NotSet]
AbsentSection(k) == [kind |-> "absent", f |-> NoFields(k)]
ScalarSection(k) == [kind |-> "scalar", f |-> NoFields(k)]
Section(k, fields) ==
  [kind |-> "object",
   f |-> [x \in FieldsOf(k) |-> IF x \in DOMAIN fields THEN fields[x] ELSE NotSet]]

EmptyDoc == [k \in TopKeys |-> AbsentSection(k)]
Doc(sections) ==
  [k \in TopKeys |-> IF k \in DOMAIN sections THEN sections[k] ELSE AbsentSection(k)]

\* a file: missing, text that parseYaml rejects, text that parses to a
\* scalar, text that parses to null, or text that parses to the mapping doc
MissingFile == [kind |-> "missing", doc |-> EmptyDoc]
GarbageFile == [kind |-> "garbage", doc |-> EmptyDoc]
ScalarFile == [kind |-> "scalar", doc |-> EmptyDoc]
NullFile == [kind |-> "null", doc |-> EmptyDoc]
DocFile(d) == [kind |-> "doc", doc |-> d]

\* { ...base, ...over } on the fields of one section
spread(k, base, over) ==
  [x \in FieldsOf(k) |-> IF over[x] # NotSet THEN over[x] ELSE base[x]]

\* ConfigWriter.readExisting(): {} for a missing file, a parse error or a
\* parse result that is no object
readExisting_throwOnCorrupt(file) ==
  IF file.kind = "missing" THEN [thrown |-> FALSE, doc |-> EmptyDoc]
  ELSE IF file.kind = "doc" THEN [thrown |-> FALSE, doc |-> file.doc]
  ELSE [thrown |-> TRUE, doc |-> EmptyDoc]
readExisting(file) ==
  [thrown |-> FALSE, doc |-> IF file.kind = "doc" THEN file.doc ELSE EmptyDoc]

\* ConfigWriter.mergeSettings(base, overrides)
writerMergeSettings_replaceSection(base, overrides) ==
  [k \in TopKeys |->
     IF k \in Sections /\ overrides[k].kind = "object"
       THEN [kind |-> "object", f |-> overrides[k].f]
       ELSE base[k]]
writerMergeSettings(base, overrides) ==
  [k \in TopKeys |->
     IF k \in Sections /\ overrides[k].kind = "object"
       THEN [kind |-> "object",
             f |-> spread(k, IF base[k].kind = "object" THEN base[k].f ELSE NoFields(k),
                          overrides[k].f)]
       ELSE base[k]]

\* toYaml(obj) followed by parseYaml of the text: stringify leaves out the
\* keys whose value is undefined
toYaml(obj) ==
  [k \in TopKeys |->
     [obj[k] EXCEPT !.f = [x \in FieldsOf(k) |-> IF obj[k].f[x] = Undef THEN NotSet
                                                  ELSE obj[k].f[x]]]]

\* ConfigWriter.updateSettings(partial): the file it leaves, or the file
\* untouched when it rejects
updateSettings(file, partial) ==
  LET existing == readExisting(file) IN
  IF existing.thrown THEN [thrown |-> TRUE, file |-> file]
  ELSE [thrown |-> FALSE,
        file |-> DocFile(toYaml(writerMergeSettings(existing.doc, partial)))]

\* DEFAULT_SETTINGS
DEFAULT_SETTINGS ==
  [repository |-> [url |-> "", branch |-> "main", auth |-> "ssh"],
   sync |-> [autoSync |-> "true", intervalMinutes |-> "0", tools |-> "all",
             overrideMode |-> "ask"],
   log |-> [level |-> "info"]]

\* ConfigResolver.mergeSettings(defaults, overrides): spreading a scalar or
\* an absent section adds none of the known fields
resolverMergeSettings(defaults, overrides) ==
  [k \in Sections |->
     [x \in FieldsOf(k) |->
        IF overrides[k].kind = "object" /\ overrides[k].f[x] # NotSet
          THEN overrides[k].f[x] ELSE defaults[k][x]]]

\* ConfigResolver.loadSettings(): parseYaml throws on unparseable text and
\* mergeSettings throws on a parse result of null (it reads a property of
\* null); the catch turns both into the defaults
loadSettings_noDefaults(file) ==
  [thrown |-> FALSE,
   settings |-> resolverMergeSettings([k \in Sections |-> NoFields(k)], file.doc)]
loadSettings(file) ==
  IF file.kind = "missing" THEN [thrown |-> FALSE, settings |-> DEFAULT_SETTINGS]
  ELSE IF file.kind \in {"garbage", "null"}
    THEN [thrown |-> FALSE, settings |-> DEFAULT_SETTINGS]
  ELSE [thrown |-> FALSE, settings |-> resolverMergeSettings(DEFAULT_SETTINGS, file.doc)]

\* a project profile: its tools entry and its repository block
NoProfile == [tools |-> NotSet, repository |-> [url |-> NotSet, branch |-> NotSet]]
\* loadProjectProfile(projectPath): null (here NoProfile with isNull)
loadProjectProfile(pfile) ==
  IF pfile.kind = "doc" THEN [isNull |-> FALSE, p |-> pfile.p]
  ELSE [isNull |-> TRUE, p |-> NoProfile]

\* applyProjectRepositoryOverride(settings, profile)
applyProjectRepositoryOverride(settings, profile) ==
  IF profile.isNull \/ \A x \in DOMAIN profile.p.repository : profile.p.repository[x] = NotSet
    THEN settings
    ELSE [settings EXCEPT !.repository =
            [x \in FieldsOf("repository") |->
               IF x \in DOMAIN profile.p.repository /\ profile.p.repository[x] # NotSet
                 THEN profile.p.repository[x] ELSE @[x]]]

\* the tool lists that occur, by the string that names them
ToolListNames == {"[]", "[tb]", "[tx,ta]"}
toolsArray(v) ==
  CASE v = "[tb]" -> <<"tb">>
    [] v = "[tx,ta]" -> <<"tx", "ta">>
    [] OTHER -> <<>>
isArray(v) == v \in ToolListNames

\* computeEffectiveTools(settings, profile)
computeEffectiveTools_settingsFirst(settings, profile) ==
  IF isArray(settings.sync.tools) THEN toolsArray(settings.sync.tools)
  ELSE IF ~profile.isNull /\ isArray(profile.p.tools) /\ Len(toolsArray(profile.p.tools)) > 0
    THEN toolsArray(profile.p.tools)
  ELSE <<>>
computeEffectiveTools(settings, profile) ==
  IF ~profile.isNull /\ isArray(profile.p.tools) /\ Len(toolsArray(profile.p.tools)) > 0
    THEN toolsArray(profile.p.tools)
  ELSE IF isArray(settings.sync.tools) THEN toolsArray(settings.sync.tools)
  ELSE <<>>

\* ConfigResolver.resolve(projectPath)
resolve(file, pfile) ==
  LET loaded == loadSettings(file)
      settings == loaded.settings
      projectProfile == loadProjectProfile(pfile)
      effectiveSettings == applyProjectRepositoryOverride(settings, projectProfile)
  IN [thrown |-> loaded.thrown, settings |-> effectiveSettings,
      profileIsNull |-> projectProfile.isNull,
      effectiveTools |-> computeEffectiveTools(effectiveSettings, projectProfile)]

MissingProfile == [kind |-> "missing", p |-> NoProfile]
NoUpdate == [called |-> FALSE, thrown |-> FALSE, partial |-> EmptyDoc, before |-> MissingFile]
NoConfig == [thrown |-> FALSE, settings |-> DEFAULT_SETTINGS, profileIsNull |-> TRUE,
             effectiveTools |-> <<"<none>">>]
ConfigIdle ==
  /\ settingsFile = MissingFile
  /\ profileFile = MissingProfile
  /\ lastUpdate = NoUpdate
  /\ resolved = NoConfig

(***************************************************************************)
(* EventBusImpl (packages/core/src/utils/platform-paths.ts)                *)
(***************************************************************************)
EventTypes == {"sync:start", "sync:complete"}
Handlers == {"h1", "h2"}      \* handler functions, by identity
Wildcard == {"*"}             \* the `type` argument "*"

\* eventemitter3 on(t, handler): one more listener entry for t
emitterOn(em, types, handler) ==
  [t \in EventTypes |-> IF t \in types THEN Append(em[t], handler) ELSE em[t]]
\* eventemitter3 off(t, handler): removes every listener of t whose function
\* is handler
emitterOff(em, types, handler) ==
  [t \in EventTypes |->
     IF t \in types THEN SelectSeq(em[t], LAMBDA h : h # handler) ELSE em[t]]

\* Set.prototype.add / delete on the wildcard handlers
setAdd(set, handler) == IF handler \in Range(set) THEN set ELSE Append(set, handler)
setDelete(set, handler) == SelectSeq(set, LAMBDA h : h # handler)

\* the function returned as `dispose` by on(type, handler)
dispose(bus, types, handler) ==
  IF types = Wildcard
    THEN [bus EXCEPT !.wildcardHandlers = setDelete(@, handler)]
    ELSE [bus EXCEPT !.emitter = emitterOff(@, types, handler)]

\* emit(event): the typed listeners, then the wildcard handlers
emit(bus, type) == bus.emitter[type] \o bus.wildcardHandlers

NoDelivery == [type |-> "none", calls |-> <<>>]
BusIdle ==
  /\ emitter = [t \in EventTypes |-> <<>>]
  /\ wildcardHandlers = <<>>
  /\ subscriptions = <<>>
  /\ delivered = NoDelivery

(***************************************************************************)
(* An engine whose configuration is refreshed (engine.ts refreshEngine)    *)
(***************************************************************************)
RepoUrls == {"urlA", "urlB"}
AllOverrideModes == {"overwrite", "skip", "ask"}

\* resolve / resolveWithOverrides: ~/.dotai/cache/<md5(url)[0..8]>
repoHashPath(url) == IF url = "urlA" THEN "cache/0a" ELSE "cache/0b"
CachePaths == {repoHashPath(u) : u \in RepoUrls}

\* the fields of a ResolvedConfig that sync() and refreshEngine read
resolveWithOverrides(url, mode) ==
  [url |-> url, overrideMode |-> mode, repoLocalPath |-> repoHashPath(url)]

\* new GitProviderImpl({cachePath: config.repoLocalPath, ...})
GitProviderFor(config) == [repoUrl |-> config.url, cachePath |-> config.repoLocalPath]

NoCall == [force |-> FALSE, startMode |-> "none", pullPath |-> "none",
           mode |-> "none", toolIdx |-> 0, reads |-> <<>>]
ReloadIdle ==
  /\ orchConfig = resolveWithOverrides("urlA", "skip")
  /\ orchGitProvider = GitProviderFor(orchConfig)
  /\ registryRepoPath = orchConfig.repoLocalPath
  /\ mirrorState = [p \in CachePaths |-> "absent"]
  /\ rlPc = "idle"
  /\ rlCall = NoCall

(***************************************************************************)
(* The mirror as a git working copy (GitProviderImpl.pullInternal)         *)
(***************************************************************************)
Branches == {"main", "dev"}
NoCommit == "none"
Detached == "detached"

\* the commit at the tip of branch b of the upstream repository at version v
tipCommit(b, v) ==
  IF b = "main" THEN (IF v = 1 THEN "m1" ELSE "m2")
  ELSE (IF v = 1 THEN "d1" ELSE "d2")
TagCommit == "t1"         \* the commit the tag v1 points to
LocalCommit == "loc"      \* a commit made in the mirror, unknown upstream

NoRepo == [exists |-> FALSE, HEAD |-> NoCommit, current |-> Detached,
           heads |-> [b \in Branches |-> NoCommit],
           origin |-> [b \in Branches |-> NoCommit],
           tracked |-> {}]

\* simpleGit().clone(repoUrl, cachePath, ["--branch", b, "--single-branch"])
gitClone(rem, b) ==
  [exists |-> TRUE, HEAD |-> tipCommit(b, rem[b]), current |-> b,
   heads |-> [x \in Branches |-> IF x = b THEN tipCommit(b, rem[b]) ELSE NoCommit],
   origin |-> [x \in Branches |-> IF x = b THEN tipCommit(b, rem[b]) ELSE NoCommit],
   tracked |-> {b}]

\* git.fetch("origin", b): the remote-tracking ref is updated when the
\* clone's fetch refspec covers the branch
gitFetch(c, rem, b) ==
  [c EXCEPT !.origin = [x \in Branches |->
                          IF x = b /\ b \in c.tracked THEN tipCommit(b, rem[b])
                          ELSE c.origin[x]]]

\* git.checkout(["-B", b, "origin/" + b])
gitCheckoutB(c, b) ==
  IF c.origin[b] = NoCommit
    THEN [thrown |-> TRUE, cache |-> c]
  ELSE [thrown |-> FALSE,
        cache |-> [c EXCEPT !.heads[b] = c.origin[b], !.current = b,
                            !.HEAD = c.origin[b]]]

\* git.reset(["--hard", "origin/" + b])
gitResetHard(c, b) ==
  [c EXCEPT !.HEAD = c.origin[b],
            !.heads = IF c.current = Detached THEN @
                      ELSE [@ EXCEPT ![c.current] = c.origin[b]]]

\* git.checkout(tag) / git.checkout(commit): HEAD is detached at the commit
gitCheckout(c, ref) == [c EXCEPT !.HEAD = TagCommit, !.current = Detached]

\* pullInternal(branch); online is FALSE when the clone / fetch fails with a
\* network error
pullInternal_fetchOnly(c, init, rem, b, online) ==
  IF ~online THEN [thrown |-> "network", cache |-> c]
  ELSE IF ~init /\ ~c.exists THEN [thrown |-> "none", cache |-> gitClone(rem, b)]
  ELSE [thrown |-> "none", cache |-> gitFetch(c, rem, b)]
pullInternal(c, init, rem, b, online) ==
  IF ~online THEN [thrown |-> "network", cache |-> c]
  ELSE IF ~init /\ ~c.exists THEN [thrown |-> "none", cache |-> gitClone(rem, b)]
  ELSE LET f == gitFetch(c, rem, b)
           k == gitCheckoutB(f, b)
       IN IF k.thrown THEN [thrown |-> "git", cache |-> f]
          ELSE [thrown |-> "none", cache |-> gitResetHard(k.cache, b)]

NoMirrorPull == [seq |-> 0, branch |-> "none", ref |-> "none", thrown |-> "notCalled",
                 fromCache |-> FALSE, commitHash |-> NoCommit]
MirrorIdle ==
  /\ cache = NoRepo
  /\ remote = [b \in Branches |-> 1]
  /\ initialized = FALSE
  /\ mpOut = NoMirrorPull

(***************************************************************************)
(* Target paths of the built-in adapters (resolveTargetPath)               *)
(***************************************************************************)
\* a path is the sequence of its segments
UserHome == <<"home", "u">>

\* the adapters registered by createDotAIEngine
BuiltinTools == {"cursor", "claude", "copilot", "windsurf", "cline", "roo", "codex",
                 "qoder", "codebuddy", "trae", "lingma", "antigravity", "gemini", "iflow"}

\* adapters whose files all go below <base>/<configDirName>
configDirName(tool) ==
  CASE tool = "cursor" -> ".cursor"
    [] tool = "copilot" -> ".github"
    [] tool = "windsurf" -> ".windsurf"
    [] tool = "qoder" -> ".qoder"
    [] tool = "codebuddy" -> ".codebuddy"
    [] tool = "trae" -> ".trae"
    [] tool = "lingma" -> ".lingma"
    [] tool = "antigravity" -> ".antigravity"
    [] tool = "gemini" -> ".gemini"
    [] tool = "iflow" -> ".iflow"
    [] OTHER -> ""

\* the scopes an adapter supports
adapterScopes(tool) ==
  IF tool \in {"copilot", "windsurf"} THEN {"project"} ELSE {"user", "project"}

\* files matched by the adapter's glob patterns below <mirror>/<tool>/<scope>
matchedFiles(tool, scope) ==
  CASE tool = "cursor" -> {<<"rules", "a.mdc">>, <<"commands", "c.md">>}
    [] tool = "claude" -> {<<"CLAUDE.md">>, <<".claude", "commands", "c.md">>}
    [] tool = "copilot" ->
         {<<"copilot-instructions.md">>, <<"instructions", "a.instructions.md">>}
    [] tool = "cline" -> {<<".clinerules", "a.md">>}
    [] tool = "roo" ->
         IF scope = "user" THEN {<<".roo", "rules", "a.md">>}
         ELSE {<<".roo", "rules", "a.md">>, <<".roorules">>, <<"AGENTS.md">>, <<"AGENT.md">>}
    [] tool = "codex" -> {<<"AGENTS.md">>, <<"AGENTS.override.md">>}
    [] tool = "gemini" ->
         IF scope = "user" THEN {<<"GEMINI.md">>, <<"rules", "a.md">>}
         ELSE {<<"rules", "a.md">>}
    [] tool = "iflow" ->
         IF scope = "user" THEN {<<"IFLOW.md">>, <<"rules", "a.md">>}
         ELSE {<<"rules", "a.md">>}
    [] OTHER -> {<<"rules", "a.md">>, <<"agents", "b.md">>}

\* resolveTargetPath(scope, context, relPath) of the adapter of the tool
resolveTargetPath_noToolDir(tool, scope, ctx, relPath) ==
  (IF scope = "user" THEN ctx.userHome ELSE ctx.projectPath) \o relPath
resolveTargetPath(tool, scope, ctx, relPath) ==
  LET base == IF scope = "user" THEN ctx.userHome ELSE ctx.projectPath IN
  CASE tool = "claude" ->
         IF relPath = <<"CLAUDE.md">>
           THEN (IF scope = "user" THEN base \o <<".claude">> \o relPath
                 ELSE base \o relPath)
         ELSE IF Len(relPath) > 2 /\ SubSeq(relPath, 1, 2) = <<".claude", "commands">>
           THEN base \o <<".claude", "commands">> \o SubSeq(relPath, 3, Len(relPath))
         ELSE base \o <<".claude">> \o relPath
    [] tool = "cline" ->
         IF scope = "user"
           THEN base \o <<"Documents", "Cline", "Rules">> \o
                  (IF Len(relPath) > 1 /\ Head(relPath) = ".clinerules"
                     THEN Tail(relPath) ELSE <<relPath[Len(relPath)]>>)
         ELSE base \o relPath
    [] tool = "roo" -> base \o relPath
    [] tool = "codex" ->
         IF scope = "project" /\ relPath \in {<<"AGENTS.md">>, <<"AGENTS.override.md">>}
           THEN base \o relPath
         ELSE base \o <<".codex">> \o relPath
    [] OTHER -> base \o <<configDirName(tool)>> \o relPath

NoMappings == {}
PathIdle ==
  /\ pmMirror = {}
  /\ pmContext = [userHome |-> UserHome, projectPath |-> <<"work", "proj">>]
  /\ pmMappings = NoMappings

\* the updateSettings calls that run at the same time
UpdCalls == {1, 2}
UpdateIdle ==
  /\ tmpFile = MissingFile
  /\ usPc = [c \in UpdCalls |-> "idle"]
  /\ usPartial = [c \in UpdCalls |-> EmptyDoc]
  /\ usMerged = [c \in UpdCalls |-> EmptyDoc]

GuardIdle ==
  /\ updatingFromYaml = FALSE
  /\ ysLeft = 0
  /\ notifications = <<>>
  /\ guardTimers = 0
  /\ loopWrites = 0
  /\ yamlEvents = 0

ExtIdle ==
  /\ ReloadIdle
  /\ MirrorIdle
  /\ PathIdle
  /\ UpdateIdle
  /\ GuardIdle

\* values the inputs of the model are drawn from
UrlValues == {<<>>, <<" ", " ">>, <<"g", "i", "t">>}
OverrideModes == {"skip", "ask"}
InstalledValues == {{"ta"}, {"ta", "tb"}}
MirrorValues ==
  {{}, {"ta/user/n.txt"}, {"ta/user/n.txt", "ta/user/r.md"},
   {"ta/user/r.md", "ta/project/p.md"}, {"tb/user/s.json"}, SrcFiles}
\* destinations that may exist before the call
PreExisting == {"~/.ta/r.md"}
ToolLists == {<<>>, <<"tx", "ta">>}
ConfigToolLists == {<<>>, <<"tb">>}
SyncOptions ==
  [tools : ToolLists, scope : {"all", "project"},
   dryRun : BOOLEAN, force : BOOLEAN]
ThrowOps == {"getPathMappings", "validate", "deploy"}
\* behaviours of the clone/fetch operation tried in a sync: it resolves on the
\* first or second run, or rejects every run with the same message
SyncPullInputs ==
  {[k \in 1..(maxRetries + 1) |-> IF k < n THEN {"Could not resolve host"} ELSE m] :
     n \in 1..2, m \in {NoError}}
  \cup {[k \in 1..(maxRetries + 1) |-> m] : m \in Messages}

Self == 1          \* token of the acquisition made by the modelled sync() call
NoOptions == [tools |-> <<>>, scope |-> "all", dryRun |-> FALSE, force |-> FALSE]
NoReport == [success |-> FALSE, totalFiles |-> -1, results |-> <<>>, errors |-> <<>>]
NoResult == [kind |-> "none"]

OpIdle ==
  /\ pc = "idle"
  /\ op = "none"
  /\ opts = NoOptions
  /\ effectiveTools = <<>>
  /\ ctxMode = "overwrite"
  /\ toolIdx = 1
  /\ events = <<>>
  /\ results = <<>>
  /\ errors = <<>>
  /\ totalFiles = 0
  /\ writes = <<>>
  /\ pullResult = NoPull
  /\ report = NoReport
  /\ opResult = NoResult

OrchestratorIdle ==
  /\ repoUrl = <<>>
  /\ overrideMode = "ask"
  /\ configTools = <<>>
  /\ installed = {}
  /\ mirror = {}
  /\ dest = [p \in TargetPaths |-> Absent]
  /\ syncState = NeverSynced
  /\ OpIdle

(***************************************************************************)
(* AtomicFileWriterImpl.write / copy and ConfigWriter.atomicWrite: all     *)
(* three stage into the sibling path `${targetPath}.tmp` (fs.writeFile or  *)
(* fs.copyFile) and then fs.rename it over the destination.                *)
(***************************************************************************)
NoInode == 0       \* the path has no directory entry
OldInode == -1     \* inode of the destination file that pre-exists
NoFd == -2         \* the call holds no open descriptor
Hole == -3         \* a byte never written (sparse region / zero fill)

Paths == {"target", "tmp"}
Inodes == {OldInode} \cup Writers

\* the complete previous content and the complete content call w writes
OldContent == [i \in 1..ContentLen |-> 0]
Content(w) == [i \in 1..ContentLen |-> w]

\* write(2) of one byte b at 1-based position p of a file holding s
WriteAt(s, p, b) ==
  IF p <= Len(s)
    THEN [s EXCEPT ![p] = b]
    ELSE s \o [i \in 1..(p - 1 - Len(s)) |-> Hole] \o <<b>>

WriterIdle ==
  /\ fsDir = [p \in Paths |-> NoInode]
  /\ fsData = [n \in Inodes |-> <<>>]
  /\ wPc = [w \in Writers |-> "start"]
  /\ wFd = [w \in Writers |-> NoFd]
  /\ wOff = [w \in Writers |-> 0]

LockIdle ==
  /\ lockOwner = Free
  /\ releaseFn = [i \in Insts |-> NoFn]
  /\ callPc = [c \in Calls |-> "idle"]
  /\ callInst = [c \in Calls |-> 1]
  /\ callAcquired = [c \in Calls |-> FALSE]
  /\ callPath = [c \in Calls |-> "none"]

WriterInit ==
  /\ LockIdle
  /\ GitIdle
  /\ OrchestratorIdle
  /\ DeployIdle
  /\ StoreIdle
  /\ StaleIdle
  /\ ConfigIdle
  /\ BusIdle
  /\ ExtIdle
  /\ \E exists \in BOOLEAN :
       fsDir = [p \in Paths |-> IF p = "target" /\ exists THEN OldInode ELSE NoInode]
  /\ fsData = [n \in Inodes |-> IF n = OldInode THEN OldContent ELSE <<>>]
  /\ wPc = [w \in Writers |-> "start"]
  /\ wFd = [w \in Writers |-> NoFd]
  /\ wOff = [w \in Writers |-> 0]

\* await fs.ensureDir(path.dirname(targetPath)); then fs.writeFile / copyFile
\* opens tmpPath with O_CREAT | O_TRUNC
OpenTmp(w) ==
  /\ wPc[w] = "start"
  /\ LET n == IF fsDir["tmp"] = NoInode THEN w ELSE fsDir["tmp"]
     IN /\ fsDir' = [fsDir EXCEPT !["tmp"] = n]
        /\ fsData' = [fsData EXCEPT ![n] = <<>>]
        /\ wFd' = [wFd EXCEPT ![w] = n]
  /\ wPc' = [wPc EXCEPT ![w] = "writing"]
  /\ UNCHANGED <<extVars, busVars, configVars, staleVars, storeVars, deployVars, wOff, lockVars, callVars, gitVars, envVars, opVars>>

\* fs.writeFile / copyFile transfers the content through the descriptor
WriteTmp(w) ==
  /\ wPc[w] = "writing"
  /\ wOff[w] < ContentLen
  /\ fsData' = [fsData EXCEPT ![wFd[w]] = WriteAt(@, wOff[w] + 1, w)]
  /\ wOff' = [wOff EXCEPT ![w] = @ + 1]
  /\ UNCHANGED <<extVars, busVars, configVars, staleVars, storeVars, deployVars, fsDir, wPc, wFd, lockVars, callVars, gitVars, envVars, opVars>>

\* the content is complete: the descriptor is closed
CloseTmp(w) ==
  /\ wPc[w] = "writing"
  /\ wOff[w] = ContentLen
  /\ wFd' = [wFd EXCEPT ![w] = NoFd]
  /\ wPc' = [wPc EXCEPT ![w] = "rename"]
  /\ UNCHANGED <<extVars, busVars, configVars, staleVars, storeVars, deployVars, fsDir, fsData, wOff, lockVars, callVars, gitVars, envVars, opVars>>

\* await fs.rename(tmpPath, targetPath)
RenameTmp(w) ==
  /\ wPc[w] = "rename"
  /\ fsDir["tmp"] # NoInode
  /\ fsDir' = [fsDir EXCEPT !["target"] = fsDir["tmp"], !["tmp"] = NoInode]
  /\ wPc' = [wPc EXCEPT ![w] = "done"]
  /\ UNCHANGED <<extVars, busVars, configVars, staleVars, storeVars, deployVars, fsData, wFd, wOff, lockVars, callVars, gitVars, envVars, opVars>>

\* fs.rename rejects with ENOENT: tmpPath was renamed away by another call
RenameFails(w) ==
  /\ wPc[w] = "rename"
  /\ fsDir["tmp"] = NoInode
  /\ wPc' = [wPc EXCEPT ![w] = "failed"]
  /\ UNCHANGED <<extVars, busVars, configVars, staleVars, storeVars, deployVars, fsDir, fsData, wFd, wOff, lockVars, callVars, gitVars, envVars, opVars>>

\* the process is killed in the middle of the call
Crash(w) ==
  /\ wPc[w] \in {"start", "writing", "rename"}
  /\ wPc' = [wPc EXCEPT ![w] = "crashed"]
  /\ wFd' = [wFd EXCEPT ![w] = NoFd]
  /\ UNCHANGED <<extVars, busVars, configVars, staleVars, storeVars, deployVars, fsDir, fsData, wOff, lockVars, callVars, gitVars, envVars, opVars>>

WriterNext ==
  \E w \in Writers :
    \/ OpenTmp(w)
    \/ WriteTmp(w)
    \/ CloseTmp(w)
    \/ RenameTmp(w)
    \/ RenameFails(w)
    \/ Crash(w)

WriterSpec == WriterInit /\ [][WriterNext]_vars

\* C3: at every step of write / copy / atomicWrite, crashes and concurrent
\* calls on the same destination included, the destination path holds either
\* the complete previous content or the complete content of one call.
C3_NoPartialDestination ==
  fsDir["target"] # NoInode =>
    fsData[fsDir["target"]] \in {OldContent} \cup {Content(w) : w \in Writers}

(***************************************************************************)
(* PullSpec: one pull() of a provider whose operation behaves as pullInput *)
(***************************************************************************)
PullInit ==
  /\ LockIdle
  /\ WriterIdle
  /\ OrchestratorIdle
  /\ DeployIdle
  /\ StoreIdle
  /\ StaleIdle
  /\ ConfigIdle
  /\ BusIdle
  /\ ExtIdle
  /\ git \in [initialized : BOOLEAN, localCommit : Commits]
  /\ pullInput \in [1..(maxRetries + 1) -> Messages \cup {NoError}]
  /\ pullOut = NoPull

ProviderPull ==
  /\ pullOut = NoPull
  /\ pullOut' = pull(git, pullInput)
  /\ git' = pull(git, pullInput).git
  /\ UNCHANGED <<extVars, busVars, configVars, staleVars, storeVars, deployVars, pullInput, lockVars, callVars, writerVars, envVars, opVars>>

PullNext == ProviderPull

PullSpec == PullInit /\ [][PullNext]_vars

EventCount(evs, type) == Cardinality({i \in 1..Len(evs) : evs[i].type = type})

\* C9: an operation run that fails with an authentication-classified error
\* (isAuthError, whether or not a network signature matches too) is the last
\* run - no retry, no backoff delay after it - and pull() throws the fatal
\* authentication error without emitting git:offline or using the cache.
C9_AuthNeverRetried ==
  pullOut # NoPull =>
    \A k \in 1..Len(pullOut.runs) :
      (pullOut.runs[k] # NoError /\ isAuthError(pullOut.runs[k])) =>
        /\ k = Len(pullOut.runs)
        /\ Len(pullOut.waits) = k - 1
        /\ pullOut.thrown = "authError"
        /\ EventCount(pullOut.events, "git:offline") = 0
        /\ ~pullOut.result.fromCache

\* C10: the operation runs at most maxRetries + 1 times; a re-run follows
\* only a network-signature failure (isNetworkError) and only while fewer
\* than maxRetries re-runs were made; the wait before re-run k+1 is
\* baseDelay * backoffMultiplier^k; any other error ends the loop at once.
C10_BoundedRetry ==
  pullOut # NoPull =>
    LET n == Len(pullOut.runs) IN
    /\ n >= 1 /\ n <= maxRetries + 1
    /\ Len(pullOut.waits) = n - 1
    /\ \A k \in 1..(n - 1) :
         /\ pullOut.runs[k] # NoError
         /\ isNetworkError(pullOut.runs[k])
         /\ pullOut.waits[k] = baseDelay * Pow(backoffMultiplier, k - 1)
    /\ \A k \in 1..n : pullOut.runs[k] = pullInput[k]
    /\ (pullOut.runs[n] # NoError /\ isNetworkError(pullOut.runs[n])) => n = maxRetries + 1

C10_Witness ==
  /\ pullOut # NoPull
  /\ Len(pullOut.runs) = maxRetries + 1
  /\ pullOut.waits = <<1000, 2000, 4000>>
  /\ pullOut.runs[maxRetries + 1] = NoError

\* C11: for every pull() that returns with fromCache = false, updated is true
\* if and only if the mirror's commit hash after the pull differs from the
\* mirror's commit hash before it - also for the first pull of a provider
\* instance (initialized = false) over a mirror cloned by an earlier run.
C11_UpdatedIffHashChanged ==
  [][(/\ pullOut = NoPull
      /\ pullOut' # NoPull
      /\ pullOut'.thrown = "none"
      /\ ~pullOut'.result.fromCache)
     => (pullOut'.result.updated <=> (git'.localCommit # git.localCommit))]_vars

(***************************************************************************)
(* LockSpec: sync() invocations racing for the lock.  The guarded block is *)
(* reduced to its suspension points (pull, per-tool work), each of which   *)
(* may throw into the catch / finally of sync().                           *)
(***************************************************************************)
LockInit ==
  /\ WriterIdle
  /\ GitIdle
  /\ OrchestratorIdle
  /\ DeployIdle
  /\ StoreIdle
  /\ StaleIdle
  /\ ConfigIdle
  /\ BusIdle
  /\ ExtIdle
  /\ lockOwner = Free
  /\ releaseFn = [i \in Insts |-> NoFn]
  /\ callPc = [c \in Calls |-> "idle"]
  /\ callInst \in [Calls -> Insts]
  /\ callAcquired = [c \in Calls |-> FALSE]
  /\ callPath = [c \in Calls |-> "none"]

\* sync(): precondition passed, sync:start emitted, entering try { acquire }
SyncStart(c) ==
  /\ callPc[c] = "idle"
  /\ callPc' = [callPc EXCEPT ![c] = "acquiring"]
  /\ UNCHANGED <<extVars, busVars, configVars, staleVars, storeVars, deployVars, lockVars, callInst, callAcquired, callPath, writerVars, gitVars, envVars, opVars>>

\* acquire(): this.releaseFn = await lockfile.lock(...); return
SyncAcquire(c) ==
  /\ callPc[c] = "acquiring"
  /\ lockSucceeds(lockOwner)
  /\ lockOwner' = c
  /\ releaseFn' = [releaseFn EXCEPT ![callInst[c]] = c]
  /\ callAcquired' = [callAcquired EXCEPT ![c] = TRUE]
  /\ callPc' = [callPc EXCEPT ![c] = "pulling"]
  /\ UNCHANGED <<extVars, busVars, configVars, staleVars, storeVars, deployVars, callInst, callPath, writerVars, gitVars, envVars, opVars>>

\* acquire(): lock() rejected and elapsed >= timeout: throws into catch/finally
SyncAcquireTimeout(c) ==
  /\ callPc[c] = "acquiring"
  /\ ~lockSucceeds(lockOwner)
  /\ callPc' = [callPc EXCEPT ![c] = "finally"]
  /\ callPath' = [callPath EXCEPT ![c] = "timeout"]
  /\ UNCHANGED <<extVars, busVars, configVars, staleVars, storeVars, deployVars, lockVars, callInst, callAcquired, writerVars, gitVars, envVars, opVars>>

\* await this.gitProvider.pull(...) returns
SyncPull(c) ==
  /\ callPc[c] = "pulling"
  /\ callPc' = [callPc EXCEPT ![c] = "deploying"]
  /\ UNCHANGED <<extVars, busVars, configVars, staleVars, storeVars, deployVars, lockVars, callInst, callAcquired, callPath, writerVars, gitVars, envVars, opVars>>

\* await this.gitProvider.pull(...) throws (authentication / unknown error)
SyncPullThrows(c) ==
  /\ callPc[c] = "pulling"
  /\ callPc' = [callPc EXCEPT ![c] = "finally"]
  /\ callPath' = [callPath EXCEPT ![c] = "pullThrew"]
  /\ UNCHANGED <<extVars, busVars, configVars, staleVars, storeVars, deployVars, lockVars, callInst, callAcquired, writerVars, gitVars, envVars, opVars>>

\* the per-tool loop runs to its end
SyncDeploy(c) ==
  /\ callPc[c] = "deploying"
  /\ callPc' = [callPc EXCEPT ![c] = "finally"]
  /\ callPath' = [callPath EXCEPT ![c] = "normal"]
  /\ UNCHANGED <<extVars, busVars, configVars, staleVars, storeVars, deployVars, lockVars, callInst, callAcquired, writerVars, gitVars, envVars, opVars>>

\* detect / getPathMappings / validate / deploy throws
SyncDeployThrows(c) ==
  /\ callPc[c] = "deploying"
  /\ callPc' = [callPc EXCEPT ![c] = "finally"]
  /\ callPath' = [callPath EXCEPT ![c] = "adapterThrew"]
  /\ UNCHANGED <<extVars, busVars, configVars, staleVars, storeVars, deployVars, lockVars, callInst, callAcquired, writerVars, gitVars, envVars, opVars>>

\* finally { await this.lockManager.release(); emit lock:released }, then the
\* report is built and the call returns
SyncFinally(c) ==
  /\ callPc[c] = "finally"
  /\ LET r == release(releaseFn[callInst[c]], lockOwner)
     IN /\ lockOwner' = r.owner
        /\ releaseFn' = [releaseFn EXCEPT ![callInst[c]] = r.fn]
  /\ callPc' = [callPc EXCEPT ![c] = "done"]
  /\ UNCHANGED <<extVars, busVars, configVars, staleVars, storeVars, deployVars, callInst, callAcquired, callPath, writerVars, gitVars, envVars, opVars>>

LockNext ==
  \E c \in Calls :
    \/ SyncStart(c)
    \/ SyncAcquire(c)
    \/ SyncAcquireTimeout(c)
    \/ SyncPull(c)
    \/ SyncPullThrows(c)
    \/ SyncDeploy(c)
    \/ SyncDeployThrows(c)
    \/ SyncFinally(c)

LockSpec == LockInit /\ [][LockNext]_vars

\* C1: no two sync() invocations on the same lock path are pulling or
\* deploying at the same time, whether they share a LockManager instance or
\* not and also when some acquire() times out.
C1_MutualExclusion ==
  \A c1, c2 \in Calls :
    c1 # c2 => ~(callPc[c1] \in {"pulling", "deploying"}
                 /\ callPc[c2] \in {"pulling", "deploying"})

\* C2: a sync() call that acquired the lock does not hold it any more when
\* the call has returned, on the normal path, when pull throws and when an
\* adapter operation throws.
C2_ReleasedOnReturn ==
  \A c \in Calls :
    (callPc[c] = "done" /\ callAcquired[c]) => lockOwner # c

C2_Witness ==
  /\ \E c \in Calls : callPc[c] = "done" /\ callAcquired[c] /\ callPath[c] = "normal"
  /\ \E c \in Calls : callPc[c] = "done" /\ callAcquired[c] /\ callPath[c] = "pullThrew"
  /\ \E c \in Calls : callPc[c] = "done" /\ callAcquired[c] /\ callPath[c] = "adapterThrew"

(***************************************************************************)
(* Spec: one orchestrator (created by createDotAIEngine) on which one      *)
(* operation is called; another process may hold the sync lock.            *)
(***************************************************************************)
Init ==
  /\ lockOwner \in {Free, OtherProc}
  /\ releaseFn = [i \in Insts |-> NoFn]
  /\ callPc = [c \in Calls |-> "idle"]
  /\ callInst = [c \in Calls |-> 1]
  /\ callAcquired = [c \in Calls |-> FALSE]
  /\ callPath = [c \in Calls |-> "none"]
  /\ WriterIdle
  /\ GitIdle
  /\ repoUrl \in UrlValues
  /\ overrideMode \in OverrideModes
  /\ configTools \in ConfigToolLists
  /\ installed \in InstalledValues
  /\ mirror \in MirrorValues
  /\ dest \in [TargetPaths -> {Absent, Local}]
  /\ \A f \in SrcFiles :
       dest[FileInfo(f).target] = Local => f \in mirror /\ FileInfo(f).target \in PreExisting
  /\ syncState = NeverSynced
  /\ OpIdle
  /\ DeployIdle
  /\ StoreIdle
  /\ StaleIdle
  /\ ConfigIdle
  /\ BusIdle
  /\ ExtIdle

\* what a call rejected by assertRepositoryConfigured() gives its caller
Rejected == [kind |-> "rejected", error |-> "DotAI is not initialized"]

\* catch (err) of sync(): emit sync:error and record the fatal error
syncCatch_completes(evs, errs, message) ==
  [events |-> evs \o <<Event("sync:error", ""), Event("sync:complete", "")>>,
   errors |-> Append(errs, SyncError("*", "", message, FALSE))]
syncCatch_recoverable(evs, errs, message) ==
  [events |-> Append(evs, Event("sync:error", "")),
   errors |-> Append(errs, SyncError("*", "", message, TRUE))]
syncCatch(evs, errs, message) ==
  [events |-> Append(evs, Event("sync:error", "")),
   errors |-> Append(errs, SyncError("*", "", message, FALSE))]

\* sync(options): lines 108-120
Sync(o) ==
  /\ pc = "idle"
  /\ op' = "sync"
  /\ opts' = o
  /\ IF assertRepositoryConfigured(repoUrl)
       THEN /\ events' = Append(events, Event("sync:start", ""))
            /\ pc' = "acquire"
            /\ opResult' = opResult
       ELSE /\ events' = events
            /\ pc' = "rejected"
            /\ opResult' = Rejected
  /\ UNCHANGED <<extVars, busVars, configVars, staleVars, storeVars, deployVars, effectiveTools, ctxMode, toolIdx, results, errors, totalFiles,
                 writes, pullResult, report,
                 lockVars, callVars, writerVars, gitVars, envVars>>

\* lines 124-128: the emission that follows a successful acquire()
lockAcquired_silent(evs) == evs
lockAcquired(evs) == Append(evs, Event("lock:acquired", ""))

\* await this.lockManager.acquire() resolves
AcquireOk ==
  /\ pc = "acquire"
  /\ lockSucceeds(lockOwner)
  /\ lockOwner' = Self
  /\ releaseFn' = [releaseFn EXCEPT ![1] = Self]
  /\ events' = lockAcquired(events)
  /\ pc' = "pull"
  /\ UNCHANGED <<extVars, busVars, configVars, staleVars, storeVars, deployVars, op, opts, effectiveTools, ctxMode, toolIdx, results, errors,
                 totalFiles, writes, pullResult, report, opResult,
                 callVars, writerVars, gitVars, envVars>>

\* await this.lockManager.acquire() rejects after the 30 s timeout
AcquireTimeout ==
  /\ pc = "acquire"
  /\ ~lockSucceeds(lockOwner)
  /\ LET c == syncCatch(events, errors, "Failed to acquire sync lock")
     IN /\ events' = c.events
        /\ errors' = c.errors
  /\ pc' = "finally"
  /\ UNCHANGED <<extVars, busVars, configVars, staleVars, storeVars, deployVars, op, opts, effectiveTools, ctxMode, toolIdx, results,
                 totalFiles, writes, pullResult, report, opResult,
                 lockVars, callVars, writerVars, gitVars, envVars>>

\* the process holding the lock releases it
OtherProcReleases ==
  /\ lockOwner = OtherProc
  /\ lockOwner' = Free
  /\ UNCHANGED <<extVars, busVars, configVars, staleVars, storeVars, deployVars, releaseFn, callVars, writerVars, gitVars, envVars, opVars>>

\* await this.gitProvider.pull(...) and lines 137-144
Pull ==
  /\ pc = "pull"
  /\ \E outs \in SyncPullInputs :
       LET p == pull(git, outs) IN
       /\ pullResult' = [thrown |-> p.thrown, result |-> p.result,
                         error |-> p.error, runs |-> p.runs]
       /\ git' = p.git
       /\ IF p.thrown = "none"
            THEN /\ events' = events \o p.events
                 /\ errors' = errors
                 /\ effectiveTools' = resolveEffectiveTools(opts, configTools)
                 /\ ctxMode' = IF opts.force THEN "overwrite" ELSE overrideMode
                 /\ toolIdx' = 1
                 /\ pc' = "tools"
            ELSE /\ LET c == syncCatch(events \o p.events, errors,
                                       IF p.thrown = "authError"
                                         THEN "Git authentication failed"
                                         ELSE "git error")
                    IN /\ events' = c.events
                       /\ errors' = c.errors
                 /\ UNCHANGED <<extVars, busVars, configVars, staleVars, storeVars, deployVars, effectiveTools, ctxMode, toolIdx>>
                 /\ pc' = "finally"
  /\ UNCHANGED <<extVars, busVars, configVars, staleVars, storeVars, deployVars, op, opts, results, totalFiles, writes, report, opResult,
                 pullInput, pullOut, lockVars, callVars, writerVars, envVars>>

\* position after one iteration of `for (const toolId of effectiveTools)`
NextToolPc_stopAfterFailure ==
  IF \/ toolIdx + 1 > Len(effectiveTools)
     \/ results'[Len(results')].status \in {"failed", "partial"}
    THEN "finally" ELSE "tools"
NextToolPc == IF toolIdx + 1 > Len(effectiveTools) THEN "finally" ELSE "tools"

\* lines 148-158: no adapter is registered for the tool
ToolNoAdapter ==
  /\ pc = "tools"
  /\ toolIdx <= Len(effectiveTools)
  /\ effectiveTools[toolIdx] \notin Range(RegisteredTools)
  /\ results' = Append(results, ToolResult(effectiveTools[toolIdx], "skipped", 0, 0))
  /\ toolIdx' = toolIdx + 1
  /\ pc' = NextToolPc
  /\ UNCHANGED <<extVars, busVars, configVars, staleVars, storeVars, deployVars, op, opts, effectiveTools, ctxMode, events, errors, totalFiles,
                 writes, pullResult, report, opResult,
                 lockVars, callVars, writerVars, gitVars, envVars>>

\* lines 160-167: adapter.detect() rejects
ToolDetectThrows ==
  /\ pc = "tools"
  /\ toolIdx <= Len(effectiveTools)
  /\ effectiveTools[toolIdx] \in Range(RegisteredTools)
  /\ LET t == effectiveTools[toolIdx]
         c == syncCatch(Append(events, Event("tool:deploy:start", t)), errors,
                        "adapter error")
     IN /\ events' = c.events
        /\ errors' = c.errors
  /\ pc' = "finally"
  /\ UNCHANGED <<extVars, busVars, configVars, staleVars, storeVars, deployVars, op, opts, effectiveTools, ctxMode, toolIdx, results, totalFiles,
                 writes, pullResult, report, opResult,
                 lockVars, callVars, writerVars, gitVars, envVars>>

\* lines 160-182: the tool is not installed
ToolNotInstalled ==
  /\ pc = "tools"
  /\ toolIdx <= Len(effectiveTools)
  /\ effectiveTools[toolIdx] \in Range(RegisteredTools)
  /\ effectiveTools[toolIdx] \notin installed
  /\ LET t == effectiveTools[toolIdx]
     IN /\ events' = events \o <<Event("tool:deploy:start", t),
                                 Event("tool:deploy:skip", t)>>
        /\ results' = Append(results, ToolResult(t, "skipped", 0, 0))
  /\ toolIdx' = toolIdx + 1
  /\ pc' = NextToolPc
  /\ UNCHANGED <<extVars, busVars, configVars, staleVars, storeVars, deployVars, op, opts, effectiveTools, ctxMode, errors, totalFiles,
                 writes, pullResult, report, opResult,
                 lockVars, callVars, writerVars, gitVars, envVars>>

\* lines 265-269: the event that closes the processing of a tool
toolDoneEvent_untagged(hasError, t) ==
  Event(IF hasError THEN "tool:deploy:error" ELSE "tool:deploy:complete", "")
toolDoneEvent(hasError, t) ==
  Event(IF hasError THEN "tool:deploy:error" ELSE "tool:deploy:complete", t)

\* lines 160-276: an installed tool is processed over the requested scopes
ToolProcess ==
  /\ pc = "tools"
  /\ toolIdx <= Len(effectiveTools)
  /\ effectiveTools[toolIdx] \in Range(RegisteredTools)
  /\ effectiveTools[toolIdx] \in installed
  /\ LET t == effectiveTools[toolIdx]
         scopes == resolveScopes(opts)
         acc0 == [deployed |-> 0, skipped |-> 0, hasError |-> FALSE,
                  errors |-> errors,
                  events |-> Append(events, Event("tool:deploy:start", t)),
                  dest |-> dest, total |-> totalFiles, writes |-> writes,
                  threw |-> FALSE]
     IN \E thrAt \in 0..Len(scopes), thrOp \in ThrowOps,
           failing \in {{}} \cup {{FileInfo(f).target} :
                                     f \in {g \in mirror : FileInfo(g).tool = t}} :
          LET acc == syncScopes(acc0, t, scopes, 1, thrAt, thrOp, failing,
                                opts.dryRun, ctxMode, mirror)
          IN /\ (thrAt > 0) = acc.threw
             /\ dest' = acc.dest
             /\ writes' = acc.writes
             /\ totalFiles' = acc.total
             /\ IF acc.threw
                  THEN /\ LET c == syncCatch(acc.events, acc.errors, "adapter error")
                          IN /\ events' = c.events
                             /\ errors' = c.errors
                       /\ UNCHANGED <<extVars, busVars, configVars, staleVars, storeVars, deployVars, results, toolIdx>>
                       /\ pc' = "finally"
                  ELSE /\ events' = Append(acc.events, toolDoneEvent(acc.hasError, t))
                       /\ errors' = acc.errors
                       /\ results' = Append(results,
                                       ToolResult(t, toolStatus(acc.hasError, acc.deployed),
                                                  acc.deployed, acc.skipped))
                       /\ toolIdx' = toolIdx + 1
                       /\ pc' = NextToolPc
  /\ UNCHANGED <<extVars, busVars, configVars, staleVars, storeVars, deployVars, op, opts, effectiveTools, ctxMode, pullResult, report, opResult,
                 lockVars, callVars, writerVars, gitVars,
                 repoUrl, overrideMode, configTools, installed, mirror, syncState>>

EndTime == 1       \* the timestamp of the one modelled call

\* lines 326-331: `.catch(() => {})` on recordGlobalSync, then return report;
\* ok is FALSE when recordGlobalSync rejected
persistCatch_rethrow(ok) ==
  IF ok THEN [pc |-> "done", result |-> [kind |-> "report"]]
  ELSE [pc |-> "rejected",
        result |-> [kind |-> "rejected", error |-> "state persistence failed"]]
persistCatch(ok) == [pc |-> "done", result |-> [kind |-> "report"]]

\* lines 291-331: finally, the report, sync:complete and the persisted state;
\* a failure of recordGlobalSync is swallowed
Finish ==
  /\ pc = "finally"
  /\ LET r == release(releaseFn[1], lockOwner)
     IN /\ lockOwner' = r.owner
        /\ releaseFn' = [releaseFn EXCEPT ![1] = r.fn]
  /\ events' = events \o <<Event("lock:released", ""), Event("sync:complete", "")>>
  /\ report' = [success |-> reportSuccess(errors, results),
                totalFiles |-> totalFiles, results |-> results, errors |-> errors]
  /\ \E persistOk \in BOOLEAN :
       /\ syncState' = IF ~opts.dryRun /\ persistOk
                         THEN recordGlobalSync(syncState, results, EndTime)
                         ELSE syncState
       /\ opResult' = persistCatch(opts.dryRun \/ persistOk).result
       /\ pc' = persistCatch(opts.dryRun \/ persistOk).pc
  /\ UNCHANGED <<extVars, busVars, configVars, staleVars, storeVars, deployVars, op, opts, effectiveTools, ctxMode, toolIdx, results, errors,
                 totalFiles, writes, pullResult,
                 callVars, writerVars, gitVars,
                 repoUrl, overrideMode, configTools, installed, mirror, dest>>

\* concatenation of the sequences f(seq[1]), f(seq[2]), ...
RECURSIVE FlatMap(_, _)
FlatMap(f(_), seq) ==
  IF seq = <<>> THEN <<>> ELSE f(Head(seq)) \o FlatMap(f, Tail(seq))

\* preview(options): lines 74-106 without the precondition
previewItems(o) ==
  LET scopes == resolveScopes(o)
      ofScope(t) ==
        FlatMap(LAMBDA sc : IF sc \in Range(supportedScopes(t))
                              THEN preview(getPathMappings(t, sc, overrideMode, mirror, dest))
                              ELSE <<>>,
                scopes)
  IN FlatMap(LAMBDA t : IF t \in Range(RegisteredTools) /\ t \in installed
                          THEN ofScope(t) ELSE <<>>,
             resolveEffectiveTools(o, configTools))

\* this.fileWriter.hash(path).catch(() => ""): the sha256 digest of the
\* content, identified with the content itself, or "" if it cannot be read
hash(content) == IF content = Unreadable THEN "" ELSE content

\* diff() lines 367-386: what one mapping contributes, given the content of
\* its source and of its destination
diffStatus_existsIsModified(src, dst) ==
  IF dst = Absent THEN "added" ELSE "modified"
diffStatus(src, dst) ==
  IF dst = Absent THEN "added"
  ELSE IF hash(src) # hash(dst) THEN "modified"
  ELSE "none"

\* diff(): lines 346-390 without the precondition
diffChanges ==
  LET ofMapping(t, m) ==
        LET st == diffStatus(SourceContent(m.sourcePath), dest[m.targetPath])
        IN IF st = "none" THEN <<>>
           ELSE <<[tool |-> t, file |-> m.targetPath, status |-> st]>>
      ofScope(t, sc) ==
        FlatMap(LAMBDA m : ofMapping(t, m),
                getPathMappings(t, sc, overrideMode, mirror, dest))
  IN FlatMap(LAMBDA t : IF t \in installed
                          THEN FlatMap(LAMBDA sc : ofScope(t, sc), supportedScopes(t))
                          ELSE <<>>,
             RegisteredTools)

\* validate(): lines 392-425 without the precondition
validationResults ==
  LET ofScope(t, sc) ==
        LET mappings == getPathMappings(t, sc, overrideMode, mirror, dest)
            v == validate(t, [i \in 1..Len(mappings) |-> mappings[i].sourcePath])
        IN [i \in 1..Len(v.errors) |-> [tool |-> t, file |-> v.errors[i]]]
  IN FlatMap(LAMBDA t : FlatMap(LAMBDA sc : ofScope(t, sc), supportedScopes(t)),
             RegisteredTools)

Preview(o) ==
  /\ pc = "idle"
  /\ op' = "preview"
  /\ opts' = o
  /\ IF assertRepositoryConfigured(repoUrl)
       THEN /\ opResult' = [kind |-> "preview", items |-> previewItems(o)]
            /\ pc' = "done"
       ELSE /\ opResult' = Rejected
            /\ pc' = "rejected"
  /\ UNCHANGED <<extVars, busVars, configVars, staleVars, storeVars, deployVars, effectiveTools, ctxMode, toolIdx, events, results, errors,
                 totalFiles, writes, pullResult, report,
                 lockVars, callVars, writerVars, gitVars, envVars>>

Diff ==
  /\ pc = "idle"
  /\ op' = "diff"
  /\ IF assertRepositoryConfigured(repoUrl)
       THEN /\ opResult' = [kind |-> "diff", hasChanges |-> Len(diffChanges) > 0,
                            changes |-> diffChanges]
            /\ pc' = "done"
       ELSE /\ opResult' = Rejected
            /\ pc' = "rejected"
  /\ UNCHANGED <<extVars, busVars, configVars, staleVars, storeVars, deployVars, opts, effectiveTools, ctxMode, toolIdx, events, results, errors,
                 totalFiles, writes, pullResult, report,
                 lockVars, callVars, writerVars, gitVars, envVars>>

Validate ==
  /\ pc = "idle"
  /\ op' = "validate"
  /\ IF assertRepositoryConfigured(repoUrl)
       THEN /\ opResult' = [kind |-> "validate", valid |-> Len(validationResults) = 0,
                            results |-> validationResults]
            /\ pc' = "done"
       ELSE /\ opResult' = Rejected
            /\ pc' = "rejected"
  /\ UNCHANGED <<extVars, busVars, configVars, staleVars, storeVars, deployVars, opts, effectiveTools, ctxMode, toolIdx, events, results, errors,
                 totalFiles, writes, pullResult, report,
                 lockVars, callVars, writerVars, gitVars, envVars>>

\* collectToolInstallStatuses(): lines 453-485.  threw is the set of
\* adapters whose detect() rejects, stateFails tells that getToolSyncTime
\* rejects.  A reason is the pair <<prefix the orchestrator adds, text>>.
collectToolInstallStatuses_dropFailed(threw, stateFails) ==
  LET kept == SelectSeq(RegisteredTools, LAMBDA t : t \notin threw)
  IN [i \in 1..Len(kept) |->
        [toolId |-> kept[i], installed |-> kept[i] \in installed,
         reason |-> <<"", IF kept[i] \in installed THEN "" ELSE "not installed">>,
         lastSyncTime |-> IF stateFails THEN 0 ELSE syncState.tools[kept[i]]]]
collectToolInstallStatuses(threw, stateFails) ==
  [i \in 1..Len(RegisteredTools) |->
     LET t == RegisteredTools[i]
         detectResult ==
           IF t \in threw
             THEN [installed |-> FALSE, reason |-> <<"Detection failed: ", "probe failed">>]
             ELSE [installed |-> t \in installed,
                   reason |-> <<"", IF t \in installed THEN "" ELSE "not installed">>]
     IN [toolId |-> t, installed |-> detectResult.installed,
         reason |-> detectResult.reason,
         lastSyncTime |-> IF stateFails THEN 0 ELSE syncState.tools[t]]]

\* detectTools(): lines 341-344
DetectTools ==
  /\ pc = "idle"
  /\ op' = "detectTools"
  /\ \E threw \in SUBSET Range(RegisteredTools), stateFails \in BOOLEAN :
       opResult' = [kind |-> "tools", threw |-> threw,
                    tools |-> collectToolInstallStatuses(threw, stateFails)]
  /\ pc' = "done"
  /\ UNCHANGED <<extVars, busVars, configVars, staleVars, storeVars, deployVars, opts, effectiveTools, ctxMode, toolIdx, events,
                 results, errors, totalFiles, writes, pullResult, report,
                 lockVars, callVars, writerVars, gitVars, envVars>>

\* status(): lines 334-339; gitProvider.getStatus() catches its own failures
Status ==
  /\ pc = "idle"
  /\ op' = "status"
  /\ \E threw \in SUBSET Range(RegisteredTools), stateFails \in BOOLEAN :
       opResult' = [kind |-> "tools", threw |-> threw,
                    tools |-> collectToolInstallStatuses(threw, stateFails)]
  /\ pc' = "done"
  /\ UNCHANGED <<extVars, busVars, configVars, staleVars, storeVars, deployVars, opts, effectiveTools, ctxMode, toolIdx, events,
                 results, errors, totalFiles, writes, pullResult, report,
                 lockVars, callVars, writerVars, gitVars, envVars>>

Next ==
  \/ \E o \in SyncOptions : Sync(o)
  \/ AcquireOk
  \/ AcquireTimeout
  \/ OtherProcReleases
  \/ Pull
  \/ ToolNoAdapter
  \/ ToolDetectThrows
  \/ ToolNotInstalled
  \/ ToolProcess
  \/ Finish
  \/ \E o \in SyncOptions : Preview(o)
  \/ Diff
  \/ Validate
  \/ DetectTools
  \/ Status

Spec == Init /\ [][Next]_vars

(***************************************************************************)
(* Properties of sync() and of the precondition (Spec)                     *)
(***************************************************************************)
Returned == op = "sync" /\ pc = "done"

\* the report.errors entries carrying the tool id t
toolErrors(t) == SelectSeq(report.errors, LAMBDA e : e.tool = t)

\* C4: in every SyncReport returned by sync(), success is true if and only if
\* report.errors is empty and no ToolSyncResult has status failed or partial.
C4_SuccessDerived ==
  Returned =>
    (report.success <=>
       /\ Len(report.errors) = 0
       /\ \A i \in 1..Len(report.results) :
            report.results[i].status \notin {"failed", "partial"})

\* a report whose tool results are all success / skipped and which still
\* carries an error entry: success must be false
C4_Witness ==
  /\ Returned
  /\ Len(report.results) > 0
  /\ \A i \in 1..Len(report.results) : report.results[i].status \in {"success", "skipped"}
  /\ Len(report.errors) > 0
  /\ \A i \in 1..Len(report.errors) : report.errors[i].recoverable
  /\ ~report.success

\* C5: for every ToolSyncResult of a report, counting as the tool's errors all
\* report.errors entries with its tool id: status is partial iff the tool
\* deployed at least one file and has at least one error, and failed iff it
\* deployed no file and has at least one error.
C5_PartialFailedStatus ==
  Returned =>
    \A i \in 1..Len(report.results) :
      LET r == report.results[i]
          hasErrors == Len(toolErrors(r.tool)) > 0
      IN /\ (r.status = "partial") <=> (r.filesDeployed > 0 /\ hasErrors)
         /\ (r.status = "failed") <=> (r.filesDeployed = 0 /\ hasErrors)

\* t has no path mapping in any scope requested by the call
noMappings(t) ==
  \A sc \in Range(resolveScopes(opts)) :
    \/ sc \notin Range(supportedScopes(t))
    \/ Len(getPathMappings(t, sc, ctxMode, mirror, dest)) = 0

\* C6: a ToolSyncResult has status skipped if and only if the tool was not
\* installed (no adapter registered, or detect() reports not installed) or
\* produced no path mappings in any requested scope.
C6_SkippedStatus ==
  Returned =>
    \A i \in 1..Len(report.results) :
      LET r == report.results[i] IN
      (r.status = "skipped") <=>
        \/ r.tool \notin Range(RegisteredTools)
        \/ r.tool \notin installed
        \/ noMappings(r.tool)

\* the URL is empty or consists of whitespace only
Blank(url) == \A i \in 1..Len(url) : url[i] = " "

\* C7: with an empty or whitespace-only repository URL, sync() rejects with
\* the precondition error before any effect - no event emitted, lock not
\* acquired, no pull attempted, no file written, no state persisted - and
\* preview(), diff() and validate() reject with the same error.
C7_BlankUrlRejects ==
  (Blank(repoUrl) /\ op \in {"none", "sync", "preview", "diff", "validate"}) =>
    /\ pc \in {"idle", "rejected"}
    /\ pc = "rejected" => opResult = Rejected
    /\ pc = "idle" => opResult = NoResult
    /\ events = <<>>
    /\ lockOwner # Self
    /\ releaseFn[1] = NoFn
    /\ pullResult = NoPull
    /\ git = [initialized |-> FALSE, localCommit |-> "c1"]
    /\ writes = <<>>
    /\ syncState = NeverSynced
    /\ report = NoReport

\* sync() was called with a whitespace-only URL and has rejected
C7_Witness ==
  /\ repoUrl = <<" ", " ">>
  /\ op = "sync"
  /\ pc = "rejected"
  /\ opResult = Rejected

Started == op = "sync" /\ pc \notin {"idle", "rejected"}

\* C12: in the event stream of one sync() call that passes the precondition,
\* sync:start is emitted exactly once and before every other event, and
\* sync:complete exactly once and after every other event, on every path
\* including aborts (lock timeout, pull error, adapter error).
C12_StartFirstCompleteLast ==
  Started =>
    /\ Len(events) >= 1
    /\ events[1].type = "sync:start"
    /\ EventCount(events, "sync:start") = 1
    /\ EventCount(events, "sync:complete") = IF pc = "done" THEN 1 ELSE 0
    /\ pc = "done" => events[Len(events)].type = "sync:complete"

\* an aborted call (sync:error emitted) that has returned
C12_Witness ==
  /\ Returned
  /\ EventCount(events, "sync:error") = 1
  /\ EventCount(events, "tool:deploy:start") >= 1
  /\ events[1].type = "sync:start"
  /\ events[Len(events)].type = "sync:complete"

DeployEvent(e) ==
  e.type \in {"tool:deploy:start", "tool:deploy:skip", "tool:deploy:complete",
              "tool:deploy:error"}

\* between the emission of lock:acquired and that of lock:released
InLockWindow ==
  /\ lockOwner = Self
  /\ EventCount(events, "lock:acquired") = 1
  /\ EventCount(events, "lock:released") = 0

\* C13: in one sync() call, lock:acquired is emitted before the first
\* tool:deploy:* event and before the first destination write, lock:released
\* after the last tool:deploy:* event and after the last destination write;
\* no pull and no destination write happens outside the acquired..released
\* window.
C13_WorkInsideLockWindow ==
  [][/\ (\/ writes' # writes
         \/ dest' # dest
         \/ pullResult' # pullResult
         \/ git' # git
         \/ \E k \in (Len(events) + 1)..Len(events') : DeployEvent(events'[k]))
        => InLockWindow
     /\ \A i, j \in 1..Len(events') :
          DeployEvent(events'[j]) =>
            /\ events'[i].type = "lock:acquired" => i < j
            /\ events'[i].type = "lock:released" => j < i
     /\ (\E j \in 1..Len(events') : DeployEvent(events'[j]))
          => EventCount(events', "lock:acquired") = 1]_vars

\* a returned call that pulled, emitted deploy events and wrote a destination
C13_Witness ==
  /\ Returned
  /\ pullResult # NoPull
  /\ Len(writes) >= 1
  /\ \E j \in 1..Len(events) : DeployEvent(events[j])
  /\ EventCount(events, "lock:acquired") = 1
  /\ EventCount(events, "lock:released") = 1

\* the override mode in effect for the call
effectiveMode == IF opts.force THEN "overwrite" ELSE overrideMode

\* source files of tool t that the call maps and does not filter out
deployable(t) ==
  {f \in mirror : /\ FileInfo(f).tool = t
                  /\ FileInfo(f).scope \in Range(resolveScopes(opts))
                  /\ FileInfo(f).scope \in Range(supportedScopes(t))
                  /\ validate(t, <<f>>).valid}

\* the step completes the processing of an installed tool without dryRun
ToolDeployed ==
  /\ op = "sync" /\ pc = "tools" /\ ~opts.dryRun
  /\ Len(results') = Len(results) + 1
  /\ events'[Len(events')].type \in {"tool:deploy:complete", "tool:deploy:error"}

\* C14: for every destination that already exists the effective override
\* mode alone decides the outcome of a deploy: with skip (force not set) the
\* content is left unchanged, the file is counted in filesSkipped and reported
\* by conflict:detected, not by an error; with overwrite or ask, or with force
\* under any configured mode, the content after a successful copy equals the
\* source content.  A destination that does not exist is always created.
C14_OverrideModeDecides ==
  [][ToolDeployed =>
       LET t == effectiveTools[toolIdx]
           r == results'[Len(results')]
           newWrites == {writes'[k] : k \in (Len(writes) + 1)..Len(writes')}
           newErrors == {errors'[k] : k \in (Len(errors) + 1)..Len(errors')}
           newEvents == {events'[k] : k \in (Len(events) + 1)..Len(events')}
           kept == {f \in deployable(t) :
                      dest[FileInfo(f).target] # Absent /\ effectiveMode = "skip"}
       IN /\ \A f \in kept :
               /\ dest'[FileInfo(f).target] = dest[FileInfo(f).target]
               /\ FileInfo(f).target \notin newWrites
               /\ ~\E e \in newErrors : e.file \in {f, FileInfo(f).target}
          /\ r.filesSkipped = Cardinality(kept)
          /\ kept # {} => Event("conflict:detected", t) \in newEvents
          /\ \A f \in deployable(t) \ kept :
               \/ /\ dest'[FileInfo(f).target] = SourceContent(f)
                  /\ FileInfo(f).target \in newWrites
               \/ /\ dest'[FileInfo(f).target] = dest[FileInfo(f).target]
                  /\ \E e \in newErrors :
                       e.file = FileInfo(f).target /\ e.error = "copy failed"]_vars

\* a returned call that kept a locally edited destination under skip and
\* created a destination that did not exist
C14_Witness ==
  /\ Returned /\ ~opts.dryRun
  /\ effectiveMode = "skip"
  /\ dest["~/.ta/r.md"] = Local
  /\ dest["./.ta/p.md"] = SourceContent("ta/project/p.md")
  /\ \E i \in 1..Len(results) : results[i].filesSkipped = 1 /\ results[i].filesDeployed = 1
  /\ EventCount(events, "conflict:detected") = 1

\* the call met no failure other than validation and per-file deploy failures
OnlyRecoverableErrors == \A i \in 1..Len(report.errors) : report.errors[i].recoverable

\* files of tool t for which the report records a failed copy
copyErrors(t) ==
  {i \in 1..Len(report.errors) :
     report.errors[i].tool = t /\ report.errors[i].error = "copy failed"}

\* C15: a validation or deploy failure in one tool never aborts the sync:
\* every tool of the effective tool list gets exactly one ToolSyncResult, in
\* list order, and every tool listed after a failed or partial tool is still
\* detected, mapped and deployed.
C15_FailureDoesNotAbort ==
  (Returned /\ OnlyRecoverableErrors) =>
    /\ Len(report.results) = Len(effectiveTools)
    /\ \A i \in 1..Len(effectiveTools) :
         LET t == effectiveTools[i]
             r == report.results[i]
         IN /\ r.tool = t
            /\ (t \in Range(RegisteredTools) /\ t \in installed) =>
                 /\ Event("tool:deploy:start", t) \in Range(events)
                 /\ r.status # "skipped"
                 /\ r.filesDeployed + r.filesSkipped + Cardinality(copyErrors(t))
                      = Cardinality(deployable(t))
            /\ (t \notin Range(RegisteredTools) \/ t \notin installed) =>
                 r.status = "skipped"

\* the first tool ended failed or partial and the tool after it was deployed
C15_Witness ==
  /\ Returned /\ ~opts.dryRun
  /\ Len(report.results) = 2
  /\ report.results[1].status \in {"failed", "partial"}
  /\ report.results[2].status = "success"
  /\ report.results[2].filesDeployed = 1
  /\ dest["~/.tb/s.json"] = SourceContent("tb/user/s.json")

(***************************************************************************)
(* DeploySpec: one AbstractToolAdapter.deploy(mappings, writer) call over  *)
(* any list of mappings, with any set of destinations whose copy fails.    *)
(***************************************************************************)
Actions == {"create", "overwrite", "skip"}

\* the mappings of the files in chosen, with the action acts gives each
mappingsOf(chosen, acts) ==
  LET files == SelectSeq(FileOrder, LAMBDA f : f \in chosen)
  IN [i \in 1..Len(files) |->
        [sourcePath |-> files[i], targetPath |-> FileInfo(files[i]).target,
         scope |-> FileInfo(files[i]).scope, action |-> acts[files[i]]]]

DeployInit ==
  /\ LockIdle
  /\ WriterIdle
  /\ GitIdle
  /\ repoUrl = <<>>
  /\ overrideMode = "ask"
  /\ configTools = <<>>
  /\ installed = {}
  /\ syncState = NeverSynced
  /\ OpIdle
  /\ mirror \in SUBSET SrcFiles
  /\ \E acts \in [SrcFiles -> Actions] :
       /\ deployIn = mappingsOf(mirror, acts)
       /\ dest = [p \in TargetPaths |->
                    IF \E i \in 1..Len(deployIn) :
                         deployIn[i].targetPath = p /\ deployIn[i].action # "create"
                      THEN Local ELSE Absent]
  /\ deployFailing \in SUBSET {FileInfo(f).target : f \in mirror}
  /\ deployOut = NoDeploy
  /\ StoreIdle
  /\ StaleIdle
  /\ ConfigIdle
  /\ BusIdle
  /\ ExtIdle

DeployCall ==
  /\ deployOut = NoDeploy
  /\ deployOut' = deploy(deployIn, dest, deployFailing)
  /\ dest' = deployOut'.dest
  /\ UNCHANGED <<extVars, busVars, configVars, staleVars, storeVars, deployIn, deployFailing, lockVars, callVars, writerVars, gitVars,
                 repoUrl, overrideMode, configTools, installed, mirror, syncState,
                 opVars>>

DeployNext == DeployCall

DeploySpec == DeployInit /\ [][DeployNext]_vars

\* C16: deploy(mappings) attempts every mapping regardless of earlier
\* failures: filesWritten + filesSkipped + errors.length equals the number of
\* mappings, a mapping with action skip is never copied, and a copy that
\* fails adds exactly one error entry without stopping the copies after it.
C16_DeployAttemptsAll ==
  deployOut # NoDeploy =>
    /\ deployOut.filesWritten + deployOut.filesSkipped + Len(deployOut.errors)
         = Len(deployIn)
    /\ \A i \in 1..Len(deployIn) :
         LET m == deployIn[i]
             copies == {k \in 1..Len(deployOut.written) : deployOut.written[k] = m.targetPath}
             errs == {k \in 1..Len(deployOut.errors) : deployOut.errors[k] = m.targetPath}
         IN IF m.action = "skip"
              THEN /\ copies = {} /\ errs = {}
                   /\ dest[m.targetPath] = Local
            ELSE IF m.targetPath \in deployFailing
              THEN /\ copies = {} /\ Cardinality(errs) = 1
                   /\ dest[m.targetPath] # SourceContent(m.sourcePath)
            ELSE /\ Cardinality(copies) = 1 /\ errs = {}
                 /\ dest[m.targetPath] = SourceContent(m.sourcePath)
    /\ deployOut.filesWritten = Len(deployOut.written)

\* the first copy fails, a later mapping is skipped and a still later one
\* is copied
C16_Witness ==
  /\ deployOut # NoDeploy
  /\ Len(deployIn) = 4
  /\ deployIn[1].targetPath \in deployFailing /\ deployIn[1].action = "overwrite"
  /\ deployIn[2].action = "skip"
  /\ deployIn[4].action = "create"
  /\ deployOut.filesWritten = 2 /\ deployOut.filesSkipped = 1
  /\ Len(deployOut.errors) = 1

(***************************************************************************)
(* StoreSpec: processes that each run SyncStateStore.recordGlobalSync on   *)
(* the same state file: load(), update the local state, then save(), which *)
(* locks the file, re-reads it, merges and writes.                         *)
(***************************************************************************)
OldTime == 1                       \* timestamp of a sync made before
timestampOf(p) == OldTime + p      \* `timestamp` argument of process p

\* toolResults argument built from the tools a process reports as synced
toolResultsOf(succ) ==
  [i \in 1..Len(RegisteredTools) |->
     ToolResult(RegisteredTools[i],
                IF RegisteredTools[i] \in succ THEN "success" ELSE "failed", 0, 0)]

StoreInit ==
  /\ LockIdle
  /\ WriterIdle
  /\ GitIdle
  /\ OrchestratorIdle
  /\ DeployIdle
  /\ storeFile \in [lastGlobalSync : {0, OldTime}, tools : [ToolIds -> {0, OldTime}]]
  /\ storeFile.lastGlobalSync = 0 => \A t \in ToolIds : storeFile.tools[t] = 0
  /\ storeFile.tools["tx"] = 0
  /\ storeLock = 0
  /\ stPc = [p \in Procs |-> "start"]
  /\ stState = [p \in Procs |-> NeverSynced]
  /\ stSuccess \in [Procs -> SUBSET Range(RegisteredTools)]
  /\ StaleIdle
  /\ ConfigIdle
  /\ BusIdle
  /\ ExtIdle

\* recordGlobalSync lines 93-99: load() and the update of the local state
StoreLoad(p) ==
  /\ stPc[p] = "start"
  /\ stState' = [stState EXCEPT ![p] =
                   recordGlobalSync(storeFile, toolResultsOf(stSuccess[p]), timestampOf(p))]
  /\ stPc' = [stPc EXCEPT ![p] = "saving"]
  /\ UNCHANGED <<storeFile, storeLock, stSuccess, lockVars, callVars, writerVars,
                 gitVars, envVars, opVars, deployVars, staleVars, configVars, busVars, extVars>>

\* save lines 47-60: lockfile.lock(statePath) resolves
StoreLock(p) ==
  /\ stPc[p] = "saving"
  /\ storeLock = 0
  /\ storeLock' = p
  /\ stPc' = [stPc EXCEPT ![p] = "locked"]
  /\ UNCHANGED <<storeFile, stState, stSuccess, lockVars, callVars, writerVars,
                 gitVars, envVars, opVars, deployVars, staleVars, configVars, busVars, extVars>>

\* save lines 62-80: re-read, merge, write, release
StoreWrite(p) ==
  /\ stPc[p] = "locked"
  /\ storeFile' = saveMerge(storeFile, stState[p])
  /\ storeLock' = 0
  /\ stPc' = [stPc EXCEPT ![p] = "done"]
  /\ UNCHANGED <<stState, stSuccess, lockVars, callVars, writerVars,
                 gitVars, envVars, opVars, deployVars, staleVars, configVars, busVars, extVars>>

StoreNext == \E p \in Procs : StoreLoad(p) \/ StoreLock(p) \/ StoreWrite(p)

StoreSpec == StoreInit /\ [][StoreNext]_vars

\* C17: when two processes run recordGlobalSync concurrently, no update is
\* lost: after both have finished, the timestamp a process wrote for a tool
\* is still in the file unless another process itself recorded a success for
\* that tool; it is never replaced by an older value of another process's
\* earlier snapshot.
C17_NoLostUpdate ==
  (\A p \in Procs : stPc[p] = "done") =>
    \A p \in Procs : \A t \in stSuccess[p] :
      storeFile.tools[t] \in {timestampOf(q) : q \in {r \in Procs : t \in stSuccess[r]}}

\* C18: if persisting the sync state fails (load, state-file lock or write
\* error), sync() still resolves with exactly the SyncReport it would
\* otherwise return: success, results and errors are unchanged and the call
\* does not reject.
C18_PersistFailureSwallowed ==
  [][(op = "sync" /\ pc = "finally" /\ pc' # "finally") =>
       /\ pc' = "done"
       /\ opResult' = [kind |-> "report"]
       /\ report' = [success |-> /\ Len(errors) = 0
                                 /\ \A i \in 1..Len(results) :
                                      results[i].status \notin {"failed", "partial"},
                     totalFiles |-> totalFiles, results |-> results, errors |-> errors]
       /\ errors' = errors /\ results' = results]_vars

\* a returned non-dry-run call with a successful tool whose timestamps were
\* not persisted
C18_Witness ==
  /\ Returned /\ ~opts.dryRun
  /\ syncState = NeverSynced
  /\ report.success
  /\ \E i \in 1..Len(report.results) : report.results[i].status = "success"
  /\ opResult = [kind |-> "report"]

updateInterval == staleTimeout \div 2

\* a lock is stale when its mtime is older than now - stale
isLockStale_never(age) == FALSE
isLockStale(age) == age > staleTimeout

\* lockfile.lock(lockFile, {stale, retries: 0}) against a lock of that age:
\* it resolves if nobody holds the lock or the lock found is stale
lockResolves(owner, age) == lockSucceeds(owner) \/ isLockStale(age)

\* the process whose acquisition is on disk is running its update timer
ownerAlive == \/ lockOwner = OtherProc /\ holder = "live"
              \/ lockOwner = Self

\* the lock's age after retryDelay more milliseconds
agedLock ==
  IF lockOwner = Free THEN 0
  ELSE IF ownerAlive /\ lockAge + retryDelay >= updateInterval THEN 0
  ELSE IF isLockStale(lockAge) THEN lockAge
  ELSE lockAge + retryDelay

StaleInit ==
  /\ lockOwner = OtherProc
  /\ releaseFn = [i \in Insts |-> NoFn]
  /\ callPc = [c \in Calls |-> "idle"]
  /\ callInst = [c \in Calls |-> 1]
  /\ callAcquired = [c \in Calls |-> FALSE]
  /\ callPath = [c \in Calls |-> "none"]
  /\ WriterIdle
  /\ GitIdle
  /\ OrchestratorIdle
  /\ DeployIdle
  /\ StoreIdle
  /\ ConfigIdle
  /\ BusIdle
  /\ ExtIdle
  /\ holder = "live"
  /\ lockAge = 0
  /\ acqPc = "idle"
  /\ acqElapsed = 0
  /\ acqTimeout = acquireTimeout

\* the holder's process dies: its lock stays on disk, nobody updates it
HolderCrash ==
  /\ holder = "live"
  /\ holder' = "crashed"
  /\ UNCHANGED <<lockAge, acqPc, acqElapsed, acqTimeout, lockVars, callVars, writerVars,
                 gitVars, envVars, opVars, deployVars, storeVars, configVars, busVars, extVars>>

\* the holder's sync() reaches its finally block and releases
HolderRelease ==
  /\ holder = "live"
  /\ lockOwner = OtherProc
  /\ holder' = "released"
  /\ lockOwner' = Free
  /\ lockAge' = 0
  /\ UNCHANGED <<releaseFn, acqPc, acqElapsed, acqTimeout, callVars, writerVars,
                 gitVars, envVars, opVars, deployVars, storeVars, configVars, busVars, extVars>>

\* acquire() lines 233-236: a new call reads startTime
AcquireCall(timeout) ==
  /\ acqPc \in {"idle", "timedout"}
  /\ acqPc' = "trying"
  /\ acqElapsed' = 0
  /\ acqTimeout' = timeout
  /\ UNCHANGED <<holder, lockAge, lockVars, callVars, writerVars,
                 gitVars, envVars, opVars, deployVars, storeVars, configVars, busVars, extVars>>

\* acquire() lines 247-248: the elapsed time is checked after a failed attempt
timedOut_late(elapsed, timeout) == elapsed > timeout
timedOut(elapsed, timeout) == elapsed >= timeout

\* the timeouts acquire() is called with; sync() uses the default
AcquireTimeouts == {0, 3 * retryDelay, acquireTimeout}

\* acquire() lines 239-253: one lockfile.lock attempt and, if it rejects,
\* the check of the elapsed time against the timeout
TryLock ==
  /\ acqPc = "trying"
  /\ IF lockResolves(lockOwner, lockAge)
       THEN /\ lockOwner' = Self
            /\ releaseFn' = [releaseFn EXCEPT ![1] = Self]
            /\ lockAge' = 0
            /\ acqPc' = "acquired"
       ELSE /\ acqPc' = IF timedOut(acqElapsed, acqTimeout) THEN "timedout" ELSE "waiting"
            /\ UNCHANGED <<lockOwner, releaseFn, lockAge>>
  /\ UNCHANGED <<holder, acqElapsed, acqTimeout, callVars, writerVars,
                 gitVars, envVars, opVars, deployVars, storeVars, configVars, busVars, extVars>>

\* retryDelay milliseconds pass: acquire() line 254 ends its delay if it is
\* waiting; a running owner's update timer fires when it is due
Tick ==
  /\ acqPc # "trying"
  /\ lockAge' = agedLock
  /\ acqElapsed' = IF acqPc = "waiting" THEN acqElapsed + retryDelay ELSE acqElapsed
  /\ acqPc' = IF acqPc = "waiting" THEN "trying" ELSE acqPc
  /\ UNCHANGED <<holder, acqTimeout, lockVars, callVars, writerVars,
                 gitVars, envVars, opVars, deployVars, storeVars, configVars, busVars, extVars>>

\* LockManagerImpl.release() by the process that acquired
AcquirerRelease ==
  /\ acqPc = "acquired"
  /\ lockOwner' = release(releaseFn[1], lockOwner).owner
  /\ releaseFn' = [releaseFn EXCEPT ![1] = release(releaseFn[1], lockOwner).fn]
  /\ lockAge' = 0
  /\ acqPc' = "idle"
  /\ UNCHANGED <<holder, acqElapsed, acqTimeout, callVars, writerVars,
                 gitVars, envVars, opVars, deployVars, storeVars, configVars, busVars, extVars>>

StaleNext ==
  \/ HolderCrash
  \/ HolderRelease
  \/ \E timeout \in AcquireTimeouts : AcquireCall(timeout)
  \/ TryLock
  \/ Tick
  \/ AcquirerRelease

StaleSpec == StaleInit /\ [][StaleNext]_vars

\* every lockfile.lock() attempt settles and every delay(retryDelay) timer
\* fires
StaleFairSpec == StaleSpec /\ WF_vars(TryLock) /\ WF_vars(Tick)

\* C20: if the process holding the sync lock crashes without releasing it,
\* an acquire() attempt by another process made once the lock's age exceeds
\* the staleness threshold succeeds; while the holder is alive and keeps the
\* lock, no step gives the lock to another process, however much time
\* passes.
C20_StaleReclaimedLiveKept ==
  [][/\ (/\ acqPc = "trying" /\ holder = "crashed" /\ lockOwner = OtherProc
         /\ lockAge > staleTimeout)
        => (acqPc' = "acquired" /\ lockOwner' = Self)
     /\ (holder = "live" /\ holder' = "live")
        => (lockOwner' = OtherProc /\ acqPc' # "acquired")]_vars

C20_Witness ==
  /\ holder = "crashed"
  /\ acqPc = "acquired"
  /\ lockOwner = Self
  /\ releaseFn[1] = Self

(***************************************************************************)
(* Properties of diff(), preview() and the tool list (Spec)                *)
(***************************************************************************)
\* C21: after a non-dry-run sync() in overwrite mode that returned
\* success = true, a diff() taken on the unchanged mirror and destinations
\* reports no change: no added and no modified entry for any tool.
C21_DiffFixedPoint ==
  (Returned /\ ~opts.dryRun /\ ctxMode = "overwrite" /\ report.success)
    => Len(diffChanges) = 0

(***************************************************************************)
(* QuerySpec: one read-only operation (diff, preview or validate) called   *)
(* on an orchestrator whose destinations may be absent, locally edited,    *)
(* unreadable or already equal to their source.                            *)
(***************************************************************************)
QueryInit ==
  /\ lockOwner \in {Free, OtherProc}
  /\ releaseFn = [i \in Insts |-> NoFn]
  /\ callPc = [c \in Calls |-> "idle"]
  /\ callInst = [c \in Calls |-> 1]
  /\ callAcquired = [c \in Calls |-> FALSE]
  /\ callPath = [c \in Calls |-> "none"]
  /\ WriterIdle
  /\ GitIdle
  /\ repoUrl \in {<<>>, <<"g", "i", "t">>}
  /\ overrideMode \in OverrideModes
  /\ configTools \in ConfigToolLists
  /\ installed \in InstalledValues
  /\ mirror \in MirrorValues
  /\ dest \in [TargetPaths -> {Absent, Local, Unreadable} \cup SrcFiles]
  /\ \A f \in SrcFiles :
       /\ dest[FileInfo(f).target] \in {Absent, Local, Unreadable, SourceContent(f)}
       /\ dest[FileInfo(f).target] # Absent => f \in mirror
       /\ dest[FileInfo(f).target] = Unreadable => FileInfo(f).target \in PreExisting
  /\ syncState = NeverSynced
  /\ OpIdle
  /\ DeployIdle
  /\ StoreIdle
  /\ StaleIdle
  /\ ConfigIdle
  /\ BusIdle
  /\ ExtIdle

QueryNext ==
  \/ Diff
  \/ \E o \in SyncOptions : Preview(o)
  \/ Validate

QuerySpec == QueryInit /\ [][QueryNext]_vars

\* the source files diff() maps: those of installed registered adapters
diffMapped == {f \in mirror : FileInfo(f).tool \in installed \cap Range(RegisteredTools)}

\* the entries of the returned change list for the destination of f
entriesOf(f) ==
  SelectSeq(opResult.changes, LAMBDA c : c.file = FileInfo(f).target)

\* C22: diff() reports, for every mapping of every installed adapter, added
\* iff the destination does not exist, modified iff it exists with content
\* differing from the source's, and no entry iff both exist with equal
\* content; every entry belongs to such a mapping and hasChanges is true
\* exactly when the change list is non-empty.
C22_DiffReportsExactly ==
  (op = "diff" /\ pc = "done") =>
    /\ \A f \in diffMapped :
         LET d == dest[FileInfo(f).target]
             want == IF d = Absent THEN "added"
                     ELSE IF d # SourceContent(f) THEN "modified"
                     ELSE "none"
         IN IF want = "none" THEN entriesOf(f) = <<>>
            ELSE entriesOf(f) = <<[tool |-> FileInfo(f).tool,
                                   file |-> FileInfo(f).target, status |-> want]>>
    /\ \A i \in 1..Len(opResult.changes) :
         \E f \in diffMapped : opResult.changes[i].file = FileInfo(f).target
    /\ opResult.hasChanges <=> Len(opResult.changes) > 0

\* a diff that found one added, one modified and one unchanged destination
C22_Witness ==
  /\ op = "diff" /\ pc = "done"
  /\ \E f, g, h \in diffMapped :
       /\ dest[FileInfo(f).target] = Absent
       /\ dest[FileInfo(g).target] = Local
       /\ dest[FileInfo(h).target] = SourceContent(h)
       /\ Len(opResult.changes) = 2 /\ opResult.hasChanges

\* the items sync(o) acts on: lines 137-144 and 184-230 of sync(), i.e. the
\* mappings of every requested, registered and installed tool over the
\* requested scopes, under the override mode sync() puts in its context,
\* without the files its validation rejects
syncItems(o) ==
  LET mode == IF o.force THEN "overwrite" ELSE overrideMode
      ofScope(t, sc) ==
        IF sc \notin Range(supportedScopes(t)) THEN <<>>
        ELSE LET mappings == getPathMappings(t, sc, mode, mirror, dest)
                 v == validate(t, [i \in 1..Len(mappings) |-> mappings[i].sourcePath])
             IN preview(SelectSeq(mappings, LAMBDA m : m.sourcePath \notin Range(v.errors)))
  IN FlatMap(LAMBDA t : IF t \in Range(RegisteredTools) /\ t \in installed
                          THEN FlatMap(LAMBDA sc : ofScope(t, sc), resolveScopes(o))
                          ELSE <<>>,
             resolveEffectiveTools(o, configTools))

\* C23: preview(options) takes no lock, does no pull and writes nothing, and
\* returns exactly the (target path, action) items that sync() with the same
\* options would act on in the same state: same tools and scopes, same
\* effective override mode (force included), validation-rejected files
\* excluded.
C23_PreviewMatchesSync ==
  [][(op' = "preview" /\ pc = "idle" /\ pc' = "done")
       => /\ UNCHANGED <<lockVars, gitVars, dest, syncState, writes, events>>
          /\ opResult'.items = syncItems(opts')]_vars

(***************************************************************************)
(* ConfigSpec: updateSettings(partial) calls and resolve() calls, one      *)
(* after another, on a settings file and a project profile that start in   *)
(* any of the listed states.                                               *)
(***************************************************************************)
FullDoc ==
  Doc([repository |-> Section("repository", [url |-> "u0", branch |-> "main", auth |-> "https"]),
       sync |-> Section("sync", [autoSync |-> "false", intervalMinutes |-> "30",
                                 tools |-> "[tx,ta]", overrideMode |-> "skip"]),
       log |-> Section("log", [level |-> "warn"]),
       extra |-> Section("extra", [note |-> "kept"])])
PartDoc ==
  Doc([repository |-> ScalarSection("repository"),
       sync |-> Section("sync", [tools |-> "[]"]),
       extra |-> ScalarSection("extra")])
SettingsFiles == {MissingFile, GarbageFile, ScalarFile, NullFile, DocFile(EmptyDoc),
                  DocFile(FullDoc), DocFile(PartDoc)}

Partials ==
  {EmptyDoc,
   Doc([repository |-> Section("repository", [url |-> "u1", branch |-> "dev"])]),
   Doc([sync |-> Section("sync", [tools |-> "[tb]", overrideMode |-> Undef])]),
   Doc([log |-> Section("log", [level |-> "debug"])]),
   Doc([repository |-> Section("repository", [auth |-> "ssh"]),
        log |-> Section("log", <<>>)])}

ProfileFiles ==
  {MissingProfile,
   [kind |-> "garbage", p |-> NoProfile],
   [kind |-> "doc", p |-> NoProfile],
   [kind |-> "doc", p |-> [NoProfile EXCEPT !.tools = "[]"]],
   [kind |-> "doc", p |-> [NoProfile EXCEPT !.tools = "[tb]"]],
   [kind |-> "doc", p |-> [NoProfile EXCEPT !.repository = [url |-> "u2", branch |-> "rel"]]]}

ConfigInit ==
  /\ LockIdle
  /\ WriterIdle
  /\ GitIdle
  /\ OrchestratorIdle
  /\ DeployIdle
  /\ StoreIdle
  /\ StaleIdle
  /\ BusIdle
  /\ ExtIdle
  /\ settingsFile \in SettingsFiles
  /\ profileFile \in ProfileFiles
  /\ lastUpdate = NoUpdate
  /\ resolved = NoConfig

\* await writer.updateSettings(partial)
UpdateSettings(partial) ==
  /\ LET u == updateSettings(settingsFile, partial)
     IN /\ settingsFile' = u.file
        /\ lastUpdate' = [called |-> TRUE, thrown |-> u.thrown, partial |-> partial,
                          before |-> settingsFile]
  /\ UNCHANGED <<profileFile, resolved, lockVars, callVars, writerVars, gitVars,
                 envVars, opVars, deployVars, storeVars, staleVars, busVars, extVars>>

\* resolver.resolve(projectPath)
Resolve ==
  /\ resolved' = resolve(settingsFile, profileFile)
  /\ UNCHANGED <<settingsFile, profileFile, lastUpdate, lockVars, callVars, writerVars,
                 gitVars, envVars, opVars, deployVars, storeVars, staleVars, busVars, extVars>>

ConfigNext ==
  \/ \E partial \in Partials : UpdateSettings(partial)
  \/ Resolve

ConfigSpec == ConfigInit /\ [][ConfigNext]_vars

\* the tool list the project profile on disk supplies, and the one the
\* global settings file supplies (<<>> if none)
profileToolList ==
  IF profileFile.kind = "doc" THEN toolsArray(profileFile.p.tools) ELSE <<>>
globalToolList ==
  IF settingsFile.kind = "doc" /\ settingsFile.doc["sync"].kind = "object"
    THEN toolsArray(settingsFile.doc["sync"].f["tools"]) ELSE <<>>

\* C24: the tools a sync() call processes are options.tools if non-empty,
\* otherwise the project profile's tool list if non-empty, otherwise the
\* global settings' tool list if it is a non-empty array, otherwise every
\* registered adapter in registration order; a lower-priority source does
\* not matter when a higher one applies.
C24_ToolListPriority ==
  [][(resolved' # resolved) =>
       \A o \in SyncOptions :
         resolveEffectiveTools(o, resolved'.effectiveTools) =
           IF Len(o.tools) > 0 THEN o.tools
           ELSE IF Len(profileToolList) > 0 THEN profileToolList
           ELSE IF Len(globalToolList) > 0 THEN globalToolList
           ELSE RegisteredTools]_vars

\* a resolve() where the profile names an empty list and the global
\* settings name a list: the global list is the configured one
C24_Witness ==
  /\ profileFile.kind = "doc" /\ profileFile.p.tools = "[]"
  /\ globalToolList = <<"tx", "ta">>
  /\ resolved.effectiveTools = <<"tx", "ta">>

\* what reading the file back gives for a value handed to updateSettings
readBack(v) == IF v = Undef THEN NotSet ELSE v

\* C25: on an existing settings document, updateSettings(partial) changes
\* only the fields partial names: a section absent from partial and every
\* field of a touched section that partial does not name keep their previous
\* value, the file read back holds exactly the merged values, and applying
\* the same partial again leaves the document as it is.
C25_UpdateTouchesNamedOnly ==
  [][(lastUpdate' # lastUpdate /\ settingsFile.kind = "doc") =>
       LET partial == lastUpdate'.partial
           old == settingsFile.doc
           new == settingsFile'.doc
       IN /\ settingsFile'.kind = "doc"
          /\ ~lastUpdate'.thrown
          /\ \A k \in TopKeys :
               IF k \in Sections /\ partial[k].kind = "object"
                 THEN /\ new[k].kind = "object"
                      /\ \A x \in FieldsOf(k) :
                           new[k].f[x] =
                             IF partial[k].f[x] # NotSet THEN readBack(partial[k].f[x])
                             ELSE IF old[k].kind = "object" THEN old[k].f[x]
                             ELSE NotSet
                 ELSE new[k] = old[k]
          /\ updateSettings(settingsFile', partial).file = settingsFile']_vars

\* the repository update of the full document: url and branch replaced,
\* auth and the other sections kept
C25_Witness ==
  /\ lastUpdate.called
  /\ lastUpdate.before = DocFile(FullDoc)
  /\ lastUpdate.partial["repository"].kind = "object"
  /\ lastUpdate.partial["sync"].kind = "absent"
  /\ settingsFile.doc["repository"].f["url"] = "u1"
  /\ settingsFile.doc["repository"].f["auth"] = "https"
  /\ settingsFile.doc["sync"] = FullDoc["sync"]
  /\ settingsFile.doc["extra"] = FullDoc["extra"]

\* C26: from a settings file that is missing, unparseable or parses to a
\* non-object, updateSettings(partial) completes without error and leaves a
\* well-formed document holding the values of partial; and whatever the file
\* holds, resolve() does not fail.
C26_CorruptFileRecovers ==
  [][/\ (lastUpdate' # lastUpdate /\ settingsFile.kind # "doc") =>
          /\ ~lastUpdate'.thrown
          /\ settingsFile'.kind = "doc"
          /\ \A k \in Sections : \A x \in FieldsOf(k) :
               LET v == lastUpdate'.partial[k].f[x]
               IN v # NotSet => settingsFile'.doc[k].f[x] = readBack(v)
     /\ (resolved' # resolved) => ~resolved'.thrown]_vars

\* an update that found unparseable text and left the log level it was given
C26_Witness ==
  /\ lastUpdate.called
  /\ lastUpdate.before = GarbageFile
  /\ ~lastUpdate.thrown
  /\ settingsFile.kind = "doc"
  /\ settingsFile.doc["log"].f["level"] = "debug"

profileRepository ==
  IF profileFile.kind = "doc" THEN profileFile.p.repository ELSE NoProfile.repository

C28_OneEntryPerAdapter ==
  (op \in {"detectTools", "status"} /\ pc = "done") =>
    /\ Len(opResult.tools) = Len(RegisteredTools)
    /\ \A i \in 1..Len(RegisteredTools) :
         LET t == RegisteredTools[i]
             e == opResult.tools[i]
         IN /\ e.toolId = t
            /\ IF t \in opResult.threw
                 THEN ~e.installed /\ e.reason[1] = "Detection failed: "
                 ELSE e.installed = (t \in installed) /\ e.reason[1] = ""

\* the second adapter's detect() threw and the first is reported installed
C28_Witness ==
  /\ op = "detectTools" /\ pc = "done"
  /\ opResult.threw = {"tb"}
  /\ "tb" \in installed
  /\ opResult.tools[1].installed
  /\ ~opResult.tools[2].installed

(***************************************************************************)
(* BusSpec: on(), dispose(), off() and emit() calls on one EventBusImpl    *)
(***************************************************************************)
MaxSubs == 3

BusInit ==
  /\ LockIdle
  /\ WriterIdle
  /\ GitIdle
  /\ OrchestratorIdle
  /\ DeployIdle
  /\ StoreIdle
  /\ StaleIdle
  /\ ConfigIdle
  /\ BusIdle
  /\ ExtIdle

\* on(type, handler): types is Wildcard, one event type or several
On(types, handler) ==
  /\ Len(subscriptions) < MaxSubs
  /\ IF types = Wildcard
       THEN /\ wildcardHandlers' = setAdd(wildcardHandlers, handler)
            /\ emitter' = emitter
       ELSE /\ emitter' = emitterOn(emitter, types, handler)
            /\ wildcardHandlers' = wildcardHandlers
  /\ subscriptions' = Append(subscriptions,
                             [types |-> types, handler |-> handler, disposed |-> FALSE])
  /\ UNCHANGED <<delivered, lockVars, callVars, writerVars, gitVars, envVars, opVars,
                 deployVars, storeVars, staleVars, configVars, extVars>>

\* disposable.dispose() of the i-th on() call
Dispose(i) ==
  /\ i \in 1..Len(subscriptions)
  /\ LET sub == subscriptions[i]
         bus == dispose([emitter |-> emitter, wildcardHandlers |-> wildcardHandlers],
                        sub.types, sub.handler)
     IN /\ emitter' = bus.emitter
        /\ wildcardHandlers' = bus.wildcardHandlers
  /\ subscriptions' = [subscriptions EXCEPT ![i].disposed = TRUE]
  /\ UNCHANGED <<delivered, lockVars, callVars, writerVars, gitVars, envVars, opVars,
                 deployVars, storeVars, staleVars, configVars, extVars>>

\* emit(event)
Emit(type) ==
  /\ delivered' = [type |-> type,
                   calls |-> emit([emitter |-> emitter,
                                   wildcardHandlers |-> wildcardHandlers], type)]
  /\ UNCHANGED <<emitter, wildcardHandlers, subscriptions, lockVars, callVars, writerVars,
                 gitVars, envVars, opVars, deployVars, storeVars, staleVars, configVars, extVars>>

BusNext ==
  \/ \E types \in {Wildcard, {"sync:start"}, EventTypes}, h \in Handlers : On(types, h)
  \/ \E i \in 1..MaxSubs : Dispose(i)
  \/ \E type \in EventTypes : Emit(type)

BusSpec == BusInit /\ [][BusNext]_vars

\* the subscriptions that are not disposed and cover event type t
liveFor(t) ==
  {i \in 1..Len(subscriptions) :
     /\ ~subscriptions[i].disposed
     /\ (subscriptions[i].types = Wildcard \/ t \in subscriptions[i].types)}

\* C29: after a subscription has been disposed its handler is invoked for no
\* later emit unless a subscription still in force names the same handler,
\* and every subscription that has not been disposed receives each event it
\* covers, also when another subscription made with the same handler
\* function has been disposed.
C29_DisposeStopsOnlyItsOwn ==
  [][(delivered' # delivered) =>
       LET t == delivered'.type IN
       /\ \A i \in liveFor(t) : subscriptions[i].handler \in Range(delivered'.calls)
       /\ \A h \in Range(delivered'.calls) :
            \E i \in liveFor(t) : subscriptions[i].handler = h]_vars

(***************************************************************************)
(* Lock events of sync() (Spec)                                            *)
(***************************************************************************)
\* the call's lock acquisition timed out
acquireFailed ==
  \E i \in 1..Len(errors) : errors[i].error = "Failed to acquire sync lock"

\* C30: in the event stream of a sync() call every lock:released event is
\* preceded by a lock:acquired event of the same call; a call whose lock
\* acquisition fails emits neither event and leaves the lock held by the
\* other running sync untouched.
C30_ReleasedOnlyAfterAcquired ==
  /\ \A i \in 1..Len(events) :
       events[i].type = "lock:released" =>
         \E j \in 1..(i - 1) : events[j].type = "lock:acquired"
  /\ (op = "sync" /\ acquireFailed) =>
       /\ \A i \in 1..Len(events) :
            events[i].type \notin {"lock:acquired", "lock:released"}
       /\ lockOwner \in {OtherProc, Free}
       /\ releaseFn[1] = NoFn

(***************************************************************************)
(* Failure paths of sync() (Spec)                                          *)
(***************************************************************************)
\* the non-recoverable entries of an error list
fatalErrors(errs) == SelectSeq(errs, LAMBDA e : ~e.recoverable)

\* the sync:error events of an event list
syncErrorEvents(evs) == SelectSeq(evs, LAMBDA e : e.type = "sync:error")

\* a step in which acquire(), pull() or an adapter method rejects inside the
\* try block of sync(): control leaves the block without finishing a tool
syncThrew ==
  /\ op = "sync"
  /\ pc \in {"acquire", "pull", "tools"}
  /\ pc' = "finally"
  /\ toolIdx' = toolIdx

\* C31: once the precondition check has passed sync() resolves with a report
\* and never rejects; a lock timeout, a pull that throws and an adapter
\* method that throws each give a report with success=false holding exactly
\* one non-recoverable error, with tool '*', after exactly one sync:error
\* event, and no tool is processed after the failure.
C31_FailureYieldsReport ==
  /\ [](op = "sync" /\ pc = "rejected" => ~assertRepositoryConfigured(repoUrl))
  /\ [][syncThrew =>
         /\ Len(fatalErrors(errors')) = 1
         /\ errors'[Len(errors')].tool = "*"
         /\ Len(syncErrorEvents(events')) = 1
         /\ results' = results]_vars
  /\ [][(op = "sync" /\ Len(fatalErrors(errors)) > 0) =>
         /\ UNCHANGED <<results, errors, dest, writes, totalFiles>>
         /\ syncErrorEvents(events') = syncErrorEvents(events)
         /\ \A i \in 1..Len(events') :
              i > Len(events) => events'[i].type \in {"lock:released", "sync:complete"}
         /\ pc' = "done" =>
              /\ opResult'.kind = "report"
              /\ ~report'.success
              /\ Len(fatalErrors(report'.errors)) = 1]_vars

\* a call whose second tool's adapter threw after the first tool was
\* processed has returned
C31_Witness ==
  /\ Returned
  /\ Len(fatalErrors(report.errors)) = 1
  /\ Len(report.results) = 1
  /\ Len(effectiveTools) = 2
  /\ report.errors[Len(report.errors)].error = "adapter error"

(***************************************************************************)
(* ReloadSpec: one sync() call on an engine whose host calls               *)
(* reloadConfig() / applySettings() whenever the call is suspended.        *)
(***************************************************************************)
ReloadInit ==
  /\ LockIdle
  /\ WriterIdle
  /\ GitIdle
  /\ OrchestratorIdle
  /\ DeployIdle
  /\ StoreIdle
  /\ StaleIdle
  /\ ConfigIdle
  /\ BusIdle
  /\ MirrorIdle
  /\ PathIdle
  /\ UpdateIdle
  /\ GuardIdle
  /\ \E u \in RepoUrls, m \in AllOverrideModes :
       orchConfig = resolveWithOverrides(u, m)
  /\ orchGitProvider = GitProviderFor(orchConfig)
  /\ registryRepoPath = orchConfig.repoLocalPath
  /\ mirrorState \in [CachePaths -> {"absent", "stale"}]
  /\ rlPc = "idle"
  /\ rlCall = NoCall

RlOthers == <<lockVars, callVars, writerVars, gitVars, envVars, opVars, deployVars,
              storeVars, staleVars, configVars, busVars, mirrorVars, pathVars, updVars, guardVars>>

\* refreshEngine(overrides): engine.ts 138-153
refreshEngine(url, mode) ==
  /\ orchConfig' = resolveWithOverrides(url, mode)
  /\ orchGitProvider' = GitProviderFor(orchConfig')
  /\ registryRepoPath' = orchConfig'.repoLocalPath
  /\ UNCHANGED <<mirrorState, rlPc, rlCall, RlOthers>>

\* sync(options) up to `await this.lockManager.acquire()`
RlSync(force) ==
  /\ rlPc = "idle"
  /\ rlPc' = "acquire"
  /\ rlCall' = [NoCall EXCEPT !.force = force, !.startMode = orchConfig.overrideMode]
  /\ UNCHANGED <<orchConfig, orchGitProvider, registryRepoPath, mirrorState, RlOthers>>

\* acquire() resolved: `this.gitProvider.pull(...)` is called on the provider
\* the orchestrator holds now
RlPullStart ==
  /\ rlPc = "acquire"
  /\ rlPc' = "pull"
  /\ rlCall' = [rlCall EXCEPT !.pullPath = orchGitProvider.cachePath]
  /\ UNCHANGED <<orchConfig, orchGitProvider, registryRepoPath, mirrorState, RlOthers>>

\* the override mode of the deploy context: orchestrator.ts 140-143
contextMode_atStart(call, config) ==
  IF call.force THEN "overwrite" ELSE call.startMode
contextMode(call, config) ==
  IF call.force THEN "overwrite" ELSE config.overrideMode

\* pull() resolved, then lines 137-144
RlPullDone ==
  /\ rlPc = "pull"
  /\ mirrorState' = [mirrorState EXCEPT ![rlCall.pullPath] = "fresh"]
  /\ rlCall' = [rlCall EXCEPT !.mode = contextMode(rlCall, orchConfig), !.toolIdx = 1]
  /\ rlPc' = "tools"
  /\ UNCHANGED <<orchConfig, orchGitProvider, registryRepoPath, RlOthers>>

\* one iteration of the tool loop: registry.get(toolId), then the adapter
\* maps and deploys the files of its own repoLocalPath (none if that
\* directory does not exist)
RlTool ==
  /\ rlPc = "tools"
  /\ rlCall' = [rlCall EXCEPT
                  !.reads = IF mirrorState[registryRepoPath] = "absent" THEN @
                            ELSE Append(@, [path |-> registryRepoPath,
                                            state |-> mirrorState[registryRepoPath]]),
                  !.toolIdx = @ + 1]
  /\ rlPc' = IF rlCall.toolIdx + 1 > Len(RegisteredTools) THEN "done" ELSE "tools"
  /\ UNCHANGED <<orchConfig, orchGitProvider, registryRepoPath, mirrorState, RlOthers>>

ReloadNext ==
  \/ \E u \in RepoUrls, m \in AllOverrideModes : refreshEngine(u, m)
  \/ \E force \in BOOLEAN : RlSync(force)
  \/ RlPullStart
  \/ RlPullDone
  \/ RlTool

ReloadSpec == ReloadInit /\ [][ReloadNext]_vars

\* C32: within one sync() call every deployed file is read from the mirror
\* directory this call's pull() brought up to date, and the override mode
\* applied is the one in force when the call started, also when the engine
\* is refreshed while the call is suspended.
C32_CallSeesOneSnapshot ==
  /\ \A i \in 1..Len(rlCall.reads) :
       /\ rlCall.reads[i].path = rlCall.pullPath
       /\ rlCall.reads[i].state = "fresh"
  /\ rlCall.mode # "none" => rlCall.mode = contextMode_atStart(rlCall, orchConfig)

(***************************************************************************)
(* Order of the per-tool events of sync() (Spec)                           *)
(***************************************************************************)
ToolEndTypes == {"tool:deploy:skip", "tool:deploy:complete", "tool:deploy:error"}

\* the events that open or close the processing of a tool, or abort the call
toolFrames ==
  SelectSeq(events, LAMBDA e : e.type \in ToolEndTypes \cup {"tool:deploy:start", "sync:error"})

\* the tools whose processing was opened, in the order of their start events
startedTools ==
  LET starts == SelectSeq(events, LAMBDA e : e.type = "tool:deploy:start")
  IN [i \in 1..Len(starts) |-> starts[i].tool]

\* the first k entries of the effective list that have an adapter
withAdapter(k) ==
  SelectSeq(SubSeq(effectiveTools, 1, k), LAMBDA t : t \in Range(RegisteredTools))

\* C33: within one sync() call tools are processed one after another in
\* effective-list order: every tool:deploy:start is followed, before the
\* next tool:deploy:start, by exactly one of skip / complete / error for the
\* same tool or by the sync:error that aborts the call, and every such
\* closing event directly follows the start of its tool.
C33_ToolsOneAfterAnother ==
  (op = "sync" /\ pc \in {"tools", "finally", "done"}) =>
    /\ \A i \in 1..Len(toolFrames) :
         /\ toolFrames[i].type = "tool:deploy:start" =>
              /\ i < Len(toolFrames)
              /\ \/ toolFrames[i + 1].type = "sync:error"
                 \/ /\ toolFrames[i + 1].type \in ToolEndTypes
                    /\ toolFrames[i + 1].tool = toolFrames[i].tool
         /\ toolFrames[i].type \in ToolEndTypes =>
              /\ i > 1
              /\ toolFrames[i - 1].type = "tool:deploy:start"
              /\ toolFrames[i - 1].tool = toolFrames[i].tool
    /\ \E k \in 0..Len(effectiveTools) : startedTools = withAdapter(k)

\* two tools were processed, the first with an error, the second completely
C33_Witness ==
  /\ Returned
  /\ Len(startedTools) = 2
  /\ startedTools[1] # startedTools[2]
  /\ \E i \in 1..Len(events) : events[i].type = "tool:deploy:error"
  /\ \E i \in 1..Len(events) : events[i].type = "tool:deploy:complete"

(***************************************************************************)
(* MirrorSpec: pull() calls on a mirror that the upstream repository, the  *)
(* user and earlier pulls have left in any state.                          *)
(***************************************************************************)
MirrorInit ==
  /\ LockIdle
  /\ WriterIdle
  /\ GitIdle
  /\ OrchestratorIdle
  /\ DeployIdle
  /\ StoreIdle
  /\ StaleIdle
  /\ ConfigIdle
  /\ BusIdle
  /\ ReloadIdle
  /\ PathIdle
  /\ UpdateIdle
  /\ GuardIdle
  /\ cache = NoRepo
  /\ remote = [b \in Branches |-> 1]
  /\ initialized = FALSE
  /\ mpOut = NoMirrorPull

MirrorOthers == <<lockVars, callVars, writerVars, gitVars, envVars, opVars, deployVars,
                  storeVars, staleVars, configVars, busVars, reloadVars, pathVars, updVars, guardVars>>

Refs == {"none", "v1"}

\* pull({branch, tag}): part_012 49-123; online is FALSE when every attempt
\* of executeWithRetry ends in a network error
MirrorPull(b, ref, online) ==
  LET r == pullInternal(cache, initialized, remote, b, online)
      c == IF ref = "none" THEN r.cache ELSE gitCheckout(r.cache, ref)
  IN /\ IF r.thrown = "none"
          THEN /\ cache' = c
               /\ initialized' = TRUE
               /\ mpOut' = [seq |-> 1 - mpOut.seq, branch |-> b, ref |-> ref,
                            thrown |-> "none", fromCache |-> FALSE,
                            commitHash |-> c.HEAD]
        ELSE IF r.thrown = "network"
          THEN /\ cache' = r.cache
               /\ initialized' = initialized
               /\ mpOut' = [seq |-> 1 - mpOut.seq, branch |-> b, ref |-> ref,
                            thrown |-> "none", fromCache |-> TRUE,
                            commitHash |-> IF cache.exists THEN cache.HEAD ELSE "unknown"]
        ELSE /\ cache' = r.cache
             /\ initialized' = initialized
             /\ mpOut' = [seq |-> 1 - mpOut.seq, branch |-> b, ref |-> ref,
                          thrown |-> "git", fromCache |-> FALSE,
                          commitHash |-> NoCommit]
     /\ UNCHANGED <<remote, MirrorOthers>>

\* a commit is pushed to branch b of the upstream repository
Push(b) ==
  /\ remote[b] = 1
  /\ remote' = [remote EXCEPT ![b] = 2]
  /\ UNCHANGED <<cache, initialized, mpOut, MirrorOthers>>

\* somebody commits inside the mirror: it diverges from upstream
CommitInMirror ==
  /\ cache.exists
  /\ cache' = [cache EXCEPT !.HEAD = LocalCommit,
                            !.heads = IF cache.current = Detached THEN @
                                      ELSE [@ EXCEPT ![cache.current] = LocalCommit]]
  /\ UNCHANGED <<remote, initialized, mpOut, MirrorOthers>>

\* somebody checks out (creating it if needed) another local branch
SwitchInMirror(b) ==
  /\ cache.exists
  /\ cache.current # b
  /\ cache' = [cache EXCEPT !.current = b,
                            !.heads[b] = IF @ = NoCommit THEN cache.HEAD ELSE @,
                            !.HEAD = IF cache.heads[b] = NoCommit THEN @ ELSE cache.heads[b]]
  /\ UNCHANGED <<remote, initialized, mpOut, MirrorOthers>>

\* the process ends and a new GitProviderImpl is constructed later
NewProvider ==
  /\ initialized
  /\ initialized' = FALSE
  /\ UNCHANGED <<cache, remote, mpOut, MirrorOthers>>

MirrorNext ==
  \/ \E b \in Branches, ref \in Refs, online \in BOOLEAN : MirrorPull(b, ref, online)
  \/ \E b \in Branches : Push(b)
  \/ CommitInMirror
  \/ \E b \in Branches : SwitchInMirror(b)
  \/ NewProvider

MirrorSpec == MirrorInit /\ [][MirrorNext]_vars

\* C34: after every pull() that returns with fromCache=false and no tag or
\* commit request the mirror's checked-out commit is the remote tip of the
\* target branch, whatever the mirror's state before; a requested tag or
\* commit is checked out only after that branch synchronisation.
C34_MirrorTracksRemoteTip ==
  [][(mpOut'.seq # mpOut.seq /\ mpOut'.thrown = "none" /\ ~mpOut'.fromCache) =>
       LET b == mpOut'.branch IN
       /\ cache'.heads[b] = tipCommit(b, remote[b])
       /\ cache'.origin[b] = tipCommit(b, remote[b])
       /\ mpOut'.ref = "none" =>
            /\ cache'.HEAD = tipCommit(b, remote[b])
            /\ cache'.current = b
            /\ mpOut'.commitHash = tipCommit(b, remote[b])
       /\ mpOut'.ref # "none" =>
            /\ cache'.HEAD = TagCommit
            /\ cache'.current = Detached]_vars

\* a pull without tag has just returned on a mirror that was detached at a
\* tag or had diverged while upstream moved on
C34_Witness ==
  /\ mpOut.thrown = "none"
  /\ ~mpOut.fromCache
  /\ mpOut.ref = "none"
  /\ remote[mpOut.branch] = 2
  /\ cache.HEAD = tipCommit(mpOut.branch, 2)
  /\ cache.heads[IF mpOut.branch = "main" THEN "dev" ELSE "main"] = LocalCommit

(***************************************************************************)
(* Termination of acquire() (StaleFairSpec)                                *)
(***************************************************************************)
\* C35: acquire(timeout) always terminates: it returns as soon as one of its
\* attempts obtains the lock; if the lock stays held it throws once at least
\* timeout milliseconds have elapsed, after retrying every 500 ms; it makes
\* at least one attempt even with timeout 0 and never waits forever.
C35_AcquireTerminates ==
  /\ (acqPc \in {"trying", "waiting"}) ~> (acqPc \in {"acquired", "timedout"})
  /\ [](acqPc = "timedout" =>
         /\ acqElapsed >= acqTimeout
         /\ acqElapsed < acqTimeout + retryDelay
         /\ acqElapsed % retryDelay = 0)
  /\ [][/\ (acqPc = "trying" /\ lockResolves(lockOwner, lockAge)) => acqPc' = "acquired"
        /\ (acqPc # "timedout" /\ acqPc' = "timedout") =>
             (acqPc = "trying" /\ ~lockResolves(lockOwner, lockAge))
        /\ (acqPc = "waiting" /\ acqPc' # "waiting") =>
             (acqPc' = "trying" /\ acqElapsed' = acqElapsed + retryDelay)]_vars

\* an acquire(0) call has thrown after its single attempt
C35_Witness ==
  /\ acqPc = "timedout"
  /\ acqTimeout = 0
  /\ acqElapsed = 0
  /\ lockOwner = OtherProc

(***************************************************************************)
(* Offline fallback without a mirror (Spec)                                *)
(***************************************************************************)
\* no mirror has ever been cloned: the provider is not initialized and the
\* cache directory holds no source file
noMirror == ~git.initialized /\ mirror = {}

\* C36: if the first pull ever made for a repository fails with network
\* errors on every attempt, so that no local mirror has been cloned, sync()
\* does not return success=true and records no 'last successful sync'
\* timestamp for any tool.
C36_NoFallbackWithoutMirror ==
  (/\ Returned
   /\ noMirror
   /\ pullResult.thrown = "none"
   /\ pullResult.result.fromCache)
  => /\ ~report.success
     /\ syncState = NeverSynced

(***************************************************************************)
(* PathSpec: the mappings one sync() call computes over a mirror holding   *)
(* any two source files, for any project directory.                       *)
(***************************************************************************)
SourceEntries ==
  {[tool |-> t, scope |-> sc, relPath |-> f] :
     t \in BuiltinTools, sc \in {"user", "project"}, f \in UNION {matchedFiles(t2, s2) :
                                          t2 \in BuiltinTools, s2 \in {"user", "project"}}}

\* the source files an adapter picks up from the mirror
MirrorEntries ==
  {e \in SourceEntries : e.scope \in adapterScopes(e.tool)
                          /\ e.relPath \in matchedFiles(e.tool, e.scope)}

ProjectPaths == {<<"work", "proj">>, UserHome, <<"home", "u", ".codex">>, <<"home">>}

PathInit ==
  /\ LockIdle
  /\ WriterIdle
  /\ GitIdle
  /\ OrchestratorIdle
  /\ DeployIdle
  /\ StoreIdle
  /\ StaleIdle
  /\ ConfigIdle
  /\ BusIdle
  /\ ReloadIdle
  /\ MirrorIdle
  /\ UpdateIdle
  /\ GuardIdle
  /\ \E e1, e2 \in MirrorEntries : e1 # e2 /\ pmMirror = {e1, e2}
  /\ \E pp \in ProjectPaths : pmContext = [userHome |-> UserHome, projectPath |-> pp]
  /\ pmMappings = NoMappings

\* the tool loop of sync() over the requested scopes: every adapter's
\* getPathMappings(scope, context)
GetAllPathMappings(scopeOpt) ==
  /\ pmMappings = NoMappings
  /\ pmMappings' =
       {[tool |-> e.tool, scope |-> e.scope, relPath |-> e.relPath,
         targetPath |-> resolveTargetPath(e.tool, e.scope, pmContext, e.relPath)] :
          e \in {x \in pmMirror : scopeOpt \in {"all", x.scope}}}
  /\ pmMappings' # NoMappings
  /\ UNCHANGED <<pmMirror, pmContext, reloadVars, mirrorVars, updVars, guardVars, lockVars, callVars,
                 writerVars, gitVars, envVars, opVars, deployVars, storeVars, staleVars,
                 configVars, busVars>>

PathNext == \E scopeOpt \in {"all", "user", "project"} : GetAllPathMappings(scopeOpt)

PathSpec == PathInit /\ [][PathNext]_vars

\* path q lies at or below path p
IsPrefix(p, q) == Len(p) <= Len(q) /\ SubSeq(q, 1, Len(p)) = p

\* neither of the project directory and the home directory contains the other
separateRoots ==
  /\ ~IsPrefix(pmContext.userHome, pmContext.projectPath)
  /\ ~IsPrefix(pmContext.projectPath, pmContext.userHome)

\* both Roo Code and Codex CLI deploy the project file AGENTS.md
sharedAgentsFile(m1, m2) ==
  /\ {m1.tool, m2.tool} = {"roo", "codex"}
  /\ m1.scope = "project" /\ m2.scope = "project"
  /\ m1.relPath = <<"AGENTS.md">> /\ m2.relPath = <<"AGENTS.md">>

named(partial) == {k \in Sections : partial[k].kind = "object"}

SectionPartials ==
  {Doc([repository |-> Section("repository", [url |-> "u1", branch |-> "dev"])]),
   Doc([sync |-> Section("sync", [tools |-> "[tb]"])]),
   Doc([log |-> Section("log", [level |-> "debug"])])}

UpdateInit ==
  /\ LockIdle
  /\ WriterIdle
  /\ GitIdle
  /\ OrchestratorIdle
  /\ DeployIdle
  /\ StoreIdle
  /\ StaleIdle
  /\ BusIdle
  /\ ReloadIdle
  /\ MirrorIdle
  /\ PathIdle
  /\ GuardIdle
  /\ settingsFile \in {MissingFile, GarbageFile, DocFile(FullDoc), DocFile(PartDoc)}
  /\ profileFile = MissingProfile
  /\ lastUpdate = NoUpdate
  /\ resolved = NoConfig
  /\ tmpFile = MissingFile
  /\ usPc = [c \in UpdCalls |-> "idle"]
  /\ usPartial \in [UpdCalls -> SectionPartials]
  /\ \A c, d \in UpdCalls : c # d => named(usPartial[c]) \cap named(usPartial[d]) = {}
  /\ usMerged = [c \in UpdCalls |-> EmptyDoc]

UpdOthers == <<profileFile, lastUpdate, resolved, lockVars, callVars, writerVars, gitVars,
               envVars, opVars, deployVars, storeVars, staleVars, busVars, reloadVars,
               mirrorVars, pathVars, guardVars>>

\* updateSettings lines 38-40: readExisting, mergeSettings, toYaml
UsMerge(c) ==
  /\ usPc[c] = "idle"
  /\ usMerged' = [usMerged EXCEPT
                    ![c] = toYaml(writerMergeSettings(readExisting(settingsFile).doc,
                                                      usPartial[c]))]
  /\ usPc' = [usPc EXCEPT ![c] = "merged"]
  /\ UNCHANGED <<settingsFile, tmpFile, usPartial, UpdOthers>>

\* atomicWrite line 102: fs.writeFile(settingsPath + ".tmp", content)
UsWriteTmp(c) ==
  /\ usPc[c] = "merged"
  /\ tmpFile' = DocFile(usMerged[c])
  /\ usPc' = [usPc EXCEPT ![c] = "written"]
  /\ UNCHANGED <<settingsFile, usPartial, usMerged, UpdOthers>>

\* atomicWrite line 103: fs.rename(tmpPath, settingsPath); it rejects with
\* ENOENT when the temporary file is gone
UsRename(c) ==
  /\ usPc[c] = "written"
  /\ IF tmpFile = MissingFile
       THEN /\ usPc' = [usPc EXCEPT ![c] = "failed"]
            /\ UNCHANGED <<settingsFile, tmpFile>>
       ELSE /\ settingsFile' = tmpFile
            /\ tmpFile' = MissingFile
            /\ usPc' = [usPc EXCEPT ![c] = "done"]
  /\ UNCHANGED <<usPartial, usMerged, UpdOthers>>

UpdateNext == \E c \in UpdCalls : UsMerge(c) \/ UsWriteTmp(c) \/ UsRename(c)

UpdateSpec == UpdateInit /\ [][UpdateNext]_vars

\* the settings file holds every field the partial sets
holdsUpdate(file, partial) ==
  /\ file.kind = "doc"
  /\ \A k \in named(partial) :
       /\ file.doc[k].kind = "object"
       /\ \A x \in FieldsOf(k) :
            partial[k].f[x] # NotSet => file.doc[k].f[x] = partial[k].f[x]

\* C38: two updateSettings calls that run concurrently and name different
\* sections both take effect: neither call fails and the final settings
\* file contains the update of each.
C38_ConcurrentUpdatesBothApply ==
  (\A c \in UpdCalls : usPc[c] \in {"done", "failed"}) =>
    \A c \in UpdCalls : usPc[c] = "done" /\ holdsUpdate(settingsFile, usPartial[c])

(***************************************************************************)
(* GuardSpec: the extension keeps settings.yaml and the VS Code settings   *)
(* in step.  The host delivers configuration-change notifications in       *)
(* order, at a time of its own choosing.                                   *)
(***************************************************************************)
KeysPerUpdate == 2   \* cfg.update calls of one syncYamlToVSCode that are modelled
MaxYamlEvents == 2   \* settings.yaml change events
MaxQueue == 3        \* notifications waiting for delivery

GuardInit ==
  /\ LockIdle
  /\ WriterIdle
  /\ GitIdle
  /\ OrchestratorIdle
  /\ DeployIdle
  /\ StoreIdle
  /\ StaleIdle
  /\ ConfigIdle
  /\ BusIdle
  /\ ReloadIdle
  /\ MirrorIdle
  /\ PathIdle
  /\ UpdateIdle
  /\ GuardIdle

GuardOthers == <<lockVars, callVars, writerVars, gitVars, envVars, opVars, deployVars,
                 storeVars, staleVars, configVars, busVars, reloadVars, mirrorVars,
                 pathVars, updVars>>

\* activation (line 479) or the settings.yaml watcher callback (lines 514-521):
\* syncYamlToVSCode starts unless the guard is set; line 200 sets the guard
YamlChanged ==
  /\ yamlEvents < MaxYamlEvents
  /\ yamlEvents' = yamlEvents + 1
  /\ IF updatingFromYaml
       THEN UNCHANGED <<updatingFromYaml, ysLeft>>
       ELSE /\ updatingFromYaml' = TRUE
            /\ ysLeft' = KeysPerUpdate
  /\ UNCHANGED <<notifications, guardTimers, loopWrites, GuardOthers>>

\* one `await cfg.update(...)` of lines 205-212 resolves: the host owes a
\* notification for it; after the last one the finally block arms the timer
CfgUpdate ==
  /\ ysLeft > 0
  /\ Len(notifications) < MaxQueue
  /\ notifications' = Append(notifications, "yaml")
  /\ ysLeft' = ysLeft - 1
  /\ guardTimers' = IF ysLeft = 1 THEN guardTimers + 1 ELSE guardTimers
  /\ UNCHANGED <<updatingFromYaml, loopWrites, yamlEvents, GuardOthers>>

\* the user edits a dotai setting in VS Code
UserEdit ==
  /\ Len(notifications) < MaxQueue
  /\ notifications' = Append(notifications, "user")
  /\ UNCHANGED <<updatingFromYaml, ysLeft, guardTimers, loopWrites, yamlEvents, GuardOthers>>

\* onDidChangeConfiguration handler, lines 490-510: nothing while the guard
\* is set, otherwise configWriter.updateSettings(readVSCodeSettings())
OnDidChangeConfiguration ==
  /\ notifications # <<>>
  /\ notifications' = Tail(notifications)
  /\ loopWrites' = IF ~updatingFromYaml /\ Head(notifications) = "yaml"
                     THEN loopWrites + 1 ELSE loopWrites
  /\ UNCHANGED <<updatingFromYaml, ysLeft, guardTimers, yamlEvents, GuardOthers>>

\* line 215: the callback armed YAML_SYNC_GUARD_DELAY_MS earlier runs
GuardTimerFires ==
  /\ guardTimers > 0
  /\ guardTimers' = guardTimers - 1
  /\ updatingFromYaml' = FALSE
  /\ UNCHANGED <<ysLeft, notifications, loopWrites, yamlEvents, GuardOthers>>

GuardNext ==
  \/ YamlChanged
  \/ CfgUpdate
  \/ UserEdit
  \/ OnDidChangeConfiguration
  \/ GuardTimerFires

GuardSpec == GuardInit /\ [][GuardNext]_vars

\* a programmatic update is being applied or has notifications outstanding
applyingYaml ==
  ysLeft > 0 \/ \E i \in 1..Len(notifications) : notifications[i] = "yaml"

\* C39: from the start of syncYamlToVSCode until every notification caused
\* by that update has been delivered the guard stays set and none of those
\* notifications triggers a write-back to settings.yaml, also when a
\* notification arrives later than the settle delay; after the last update
\* has settled the guard is cleared.
C39_GuardCoversNotifications ==
  /\ applyingYaml => updatingFromYaml
  /\ loopWrites = 0
  /\ (~applyingYaml /\ guardTimers = 0) => ~updatingFromYaml

(***************************************************************************)
(* The status bar of the extension (StatusBarManager), fed by the events   *)
(* of the orchestrator (Spec)                                              *)
(***************************************************************************)
\* the StatusBarManager after its constructor
NewStatusBar == [state |-> "idle", hasConflictInCurrentSync |-> FALSE]

\* handleEvent(event) with updateState(state)
handleEvent(bar, type) ==
  CASE type = "sync:start" -> [state |-> "syncing", hasConflictInCurrentSync |-> FALSE]
    [] type = "sync:complete" ->
         [bar EXCEPT !.state = IF bar.hasConflictInCurrentSync THEN "conflict" ELSE "idle"]
    [] type = "sync:error" -> [bar EXCEPT !.state = "warning"]
    [] type = "git:offline" -> [bar EXCEPT !.state = "offline"]
    [] type = "conflict:detected" -> [bar EXCEPT !.hasConflictInCurrentSync = TRUE]
    [] OTHER -> bar

\* the status bar after the wildcard subscription has seen the events evs
RECURSIVE statusBarAfter(_, _)
statusBarAfter(bar, evs) ==
  IF evs = <<>> THEN bar
  ELSE statusBarAfter(handleEvent(bar, Head(evs).type), Tail(evs))

statusBar == statusBarAfter(NewStatusBar, events)

\* C40: after a sync() call that emitted sync:error has finished the status
\* bar is in the warning state, not idle; it is in the conflict state
\* exactly when a conflict:detected event occurred since the last sync:start
\* and no error occurred; it is never left in the syncing state once no
\* sync call is running.
C40_StatusBarShowsOutcome ==
  Returned =>
    /\ EventCount(events, "sync:error") > 0 => statusBar.state = "warning"
    /\ statusBar.state = "conflict" <=>
         (EventCount(events, "conflict:detected") > 0
          /\ EventCount(events, "sync:error") = 0)
    /\ statusBar.state # "syncing"

====
